---- MODULE Spec2Model ----
(***************************************************************************)
(* A model of the DJMoody audio pipeline: beat detection, mix-point        *)
(* selection, crossfading, WAV encoding, energy classification and the     *)
(* createTransition orchestration with its progress reports, and the page  *)
(* component that starts the runs and shows their results.                 *)
(*                                                                         *)
(* Numbers.  The source computes in IEEE doubles; the model computes in    *)
(* exact integer arithmetic on scaled values:                              *)
(*   - a sample value s is the integer s * SampleDen;                      *)
(*   - a window's RMS energy sqrt(sum/windowSize) is kept in the beat      *)
(*     detector as its radicand numerator `sum` (all windows of one call   *)
(*     share windowSize, and x |-> sqrt(x/windowSize) is strictly          *)
(*     increasing, so every comparison of the source is kept exactly);     *)
(*   - a confidence c is the integer floor(c * ConfScale);                 *)
(*   - a progress value p is the integer p * ProgressScale.                *)
(***************************************************************************)
EXTENDS Integers, Sequences, FiniteSets, TLC

VARIABLES
    calls,       \* beat detector: the findBeats invocations made so far on one AudioProcessor
    runs,        \* pipeline: the createTransition runs started so far, each with its position
    selections,  \* mix-point selector: the latest findMixPoints invocation, if any
    encodings,   \* container encoder: the audioBufferToWav invocation made, if any
    mixes,       \* crossfader: the createMix invocation made, if any
    analyses,    \* energy classifier: the analysis or classification made, if any
    page         \* page component: its React state, its runs and its timers, once mounted

vars == <<calls, runs, selections, encodings, mixes, analyses, page>>

\* every component starts with no invocation made
NothingInvoked ==
    /\ calls = <<>>
    /\ runs = <<>>
    /\ selections = <<>>
    /\ encodings = <<>>
    /\ mixes = <<>>
    /\ analyses = <<>>
    /\ page = <<>>

(***************************************************************************)
(* Generic helpers                                                         *)
(***************************************************************************)
Max(a, b) == IF a >= b THEN a ELSE b
Min(a, b) == IF a <= b THEN a ELSE b
Abs(a) == IF a < 0 THEN -a ELSE a
Range(s) == {s[i] : i \in DOMAIN s}

RECURSIVE SumSeq(_)
SumSeq(s) == IF s = <<>> THEN 0 ELSE Head(s) + SumSeq(Tail(s))

\* floor(sqrt(n)) for n >= 0 (Math.sqrt followed by the model's fixed-point floor)
\* (bisection between lo and hi, lo * lo <= n < hi * hi)
RECURSIVE IsqrtBetween(_, _, _)
IsqrtBetween(n, lo, hi) ==
    IF hi - lo <= 1 THEN lo
    ELSE LET mid == (lo + hi) \div 2
         IN IF mid * mid <= n THEN IsqrtBetween(n, mid, hi) ELSE IsqrtBetween(n, lo, mid)
Isqrt(n) == IsqrtBetween(n, 0, 46341)

\* Math.floor(sampleRate * pct/100) for an integer sample rate
FloorPct(sampleRate, pct) == (sampleRate * pct) \div 100

\* Math.round(num/den) for num >= 0, den > 0: round half up
RoundDiv(num, den) == (2 * num + den) \div (2 * den)

(***************************************************************************)
(* Scales                                                                  *)
(***************************************************************************)
ConfScale == 100
SampleDen == 4

(***************************************************************************)
(* Beat detector: AudioProcessor.findBeats and its helpers                 *)
(***************************************************************************)
\* a threshold is the median's radicand, or NaN (undefined * 1.5, for an empty curve)
NaN == [isNaN |-> TRUE, median |-> 0]
Diverges == [kind |-> "diverges"]

\* the window sizes findBeats derives from the sample rate
windowSizeOf(sampleRate) == FloorPct(sampleRate, 4)
hopSizeOf(sampleRate) == windowSizeOf(sampleRate) \div 4
\* (no minimum spacing between beats)
minBeatIntervalNone(sampleRate) == 0
minBeatIntervalOf(sampleRate) == FloorPct(sampleRate, 35)

\* sum of channelData[i+j]^2 for j in 0..windowSize-1 (i is a 0-based sample index)
RECURSIVE WindowSum(_, _, _)
WindowSum(channelData, i, windowSize) ==
    IF windowSize = 0 THEN 0
    ELSE channelData[i + windowSize] * channelData[i + windowSize]
         + WindowSum(channelData, i, windowSize - 1)

\* the energy loop: for (i = 0; i < length - windowSize; i += hopSize); hopSize = 0 never advances
EnergyLoopDiverges(channelData, sampleRate) ==
    hopSizeOf(sampleRate) = 0 /\ 0 < Len(channelData) - windowSizeOf(sampleRate)

\* number of windows the loop pushes (hopSize >= 1)
NumWindows(len, windowSize, hopSize) ==
    IF len - windowSize <= 0 THEN 0 ELSE ((len - windowSize - 1) \div hopSize) + 1

\* the energy curve, 1-based: energies[k] is the window starting at sample (k-1)*hopSize
energyCurve(channelData, sampleRate) ==
    LET ws == windowSizeOf(sampleRate)
        hop == hopSizeOf(sampleRate)
        n == IF hop = 0 THEN 0 ELSE NumWindows(Len(channelData), ws, hop)
    IN [k \in 1..n |-> WindowSum(channelData, (k - 1) * hop, ws)]

\* sorted[Math.floor(sorted.length / 2)] of the ascending sort; undefined for an empty curve
SortedAt(energies, k) ==
    CHOOSE v \in Range(energies) :
        /\ Cardinality({i \in DOMAIN energies : energies[i] < v}) <= k
        /\ Cardinality({i \in DOMAIN energies : energies[i] <= v}) > k

\* calculateThreshold: median * 1.5, kept as the median's radicand; undefined * 1.5 is NaN
calculateThreshold(energies) ==
    IF Len(energies) = 0 THEN NaN
    ELSE [isNaN |-> FALSE, median |-> SortedAt(energies, Len(energies) \div 2)]

\* energy > threshold, i.e. sqrt(e/w) > 1.5 * sqrt(m/w), i.e. 4e > 9m; any comparison with NaN is false
ExceedsThreshold(energy, threshold) ==
    IF threshold.isNaN THEN FALSE ELSE 4 * energy > 9 * threshold.median

\* (a peak test that lets a window equal its neighbours)
IsPeakNonStrict(energies, threshold, i) ==
    /\ ExceedsThreshold(energies[i + 1], threshold)
    /\ energies[i + 1] >= energies[i]
    /\ energies[i + 1] >= energies[i - 1]
    /\ energies[i + 1] >= energies[i + 2]
    /\ energies[i + 1] >= energies[i + 3]
\* the peak test of the scan loop at 0-based window index i (without the spacing rule)
IsPeak(energies, threshold, i) ==
    /\ ExceedsThreshold(energies[i + 1], threshold)
    /\ energies[i + 1] > energies[i]
    /\ energies[i + 1] > energies[i - 1]
    /\ energies[i + 1] > energies[i + 2]
    /\ energies[i + 1] > energies[i + 3]

\* (lastBeat kept on the processor across calls instead of being a local)
LastBeatStale(minBeatInterval) ==
    IF calls # <<>> /\ calls[Len(calls)].result.kind = "BeatInfo"
       /\ calls[Len(calls)].result.beats # <<>>
    THEN calls[Len(calls)].result.beats[Len(calls[Len(calls)].result.beats)]
    ELSE -minBeatInterval

\* let lastBeat = -minBeatInterval, a local of each call
InitialLastBeat(minBeatInterval) == -minBeatInterval

\* the 0-based window indices the scan loop visits: for (i = 2; i < energies.length - 2; i++)
ScanIndices(energies) == 2..(Len(energies) - 3)

\* the scan loop from window index `from` on.  Only an index passing the peak test can
\* change lastBeat or beats, so the loop is folded over those indices in ascending order.
RECURSIVE ScanPeaks(_, _, _, _, _, _, _)
ScanPeaks(energies, threshold, hopSize, minBeatInterval, from, lastBeat, beats) ==
    LET peaks == {i \in ScanIndices(energies) : i >= from /\ IsPeak(energies, threshold, i)}
    IN IF peaks = {} THEN beats
       ELSE LET i == CHOOSE p \in peaks : \A q \in peaks : p <= q
                currentSample == i * hopSize
            IN IF currentSample - lastBeat > minBeatInterval
               THEN ScanPeaks(energies, threshold, hopSize, minBeatInterval, i + 1,
                              currentSample, Append(beats, currentSample))
               ELSE ScanPeaks(energies, threshold, hopSize, minBeatInterval, i + 1,
                              lastBeat, beats)

intervalsOf(beats) == [i \in 1..(Len(beats) - 1) |-> beats[i + 1] - beats[i]]

DefaultBpm == 120

\* calculateBPM followed by the Math.round of findBeats' return:
\* round((60 * sampleRate) / (sum / n)) = round(60 * sampleRate * n / sum)
calculateBPM(beats, sampleRate) ==
    IF Len(beats) < 2 THEN DefaultBpm
    ELSE LET intervals == intervalsOf(beats)
         IN RoundDiv(60 * sampleRate * Len(intervals), SumSeq(intervals))

LowConfidence == (3 * ConfScale) \div 10

\* calculateConfidence: max(0.3, min(1, 1 - cv)), cv = sqrt(variance) / mean,
\* cv^2 = (n * sum(d^2) - sum(d)^2) / sum(d)^2
calculateConfidence(beats) ==
    IF Len(beats) < 4 THEN LowConfidence
    ELSE LET intervals == intervalsOf(beats)
             n == Len(intervals)
             s == SumSeq(intervals)
             q == SumSeq([i \in 1..n |-> intervals[i] * intervals[i]])
             cv == Isqrt(ConfScale * ConfScale * (n * q - s * s)) \div s
         IN Max(LowConfidence, Min(ConfScale, ConfScale - cv))

MinBpm == 85
MaxBpm == 175

findBeats(channelData, sampleRate) ==
    IF EnergyLoopDiverges(channelData, sampleRate) THEN Diverges
    ELSE LET energies == energyCurve(channelData, sampleRate)
             threshold == calculateThreshold(energies)
             minBeatInterval == minBeatIntervalOf(sampleRate)
             beats == ScanPeaks(energies, threshold, hopSizeOf(sampleRate), minBeatInterval,
                                2, InitialLastBeat(minBeatInterval), <<>>)
         IN [kind |-> "BeatInfo",
             bpm |-> Max(MinBpm, Min(MaxBpm, calculateBPM(beats, sampleRate))),
             beats |-> beats,
             confidence |-> calculateConfidence(beats)]

(***************************************************************************)
(* Beat detector inputs                                                    *)
(***************************************************************************)
MaxCalls == 2

Zeros(n) == [i \in 1..n |-> 0]
Flat(n, a) == [i \in 1..n |-> a]
Pulse == <<1, 0, 0, 1>>

RECURSIVE PulseTrain(_)
PulseTrain(gaps) ==
    IF gaps = <<>> THEN Pulse \o Zeros(6)
    ELSE Pulse \o Zeros(Head(gaps)) \o PulseTrain(Tail(gaps))

GapChoices == {20, 33, 80}
GapSeqs == [1..1 -> GapChoices] \cup [1..3 -> GapChoices]

\* (channel samples, sample rate) pairs: silence and flat signals of lengths around one
\* analysis window, a step from silence to full scale, pulse trains, and rates below 100 Hz
\* where hopSize is 0
BeatInputs ==
    {<<Zeros(n), 100>> : n \in {0, 3, 4, 5, 12}}
    \cup {<<Flat(12, SampleDen), 100>>, <<Zeros(17), 200>>, <<Flat(20, 1), 200>>}
    \cup {<<Zeros(6) \o Flat(6, SampleDen), 100>>}
    \cup {<<Zeros(6) \o PulseTrain(g), 100>> : g \in GapSeqs}
    \cup {<<Zeros(0), 10>>, <<Zeros(1), 10>>, <<Zeros(2), 50>>, <<Zeros(5), 50>>}

InitBeats == NothingInvoked

\* one invocation of findBeats on the processor
InvokeFindBeats ==
    /\ Len(calls) < MaxCalls
    /\ \E in \in BeatInputs :
          calls' = Append(calls, [channelData |-> in[1], sampleRate |-> in[2],
                                   result |-> findBeats(in[1], in[2])])

NextBeats == InvokeFindBeats /\ UNCHANGED <<runs, selections, encodings, mixes, analyses, page>>

SpecBeats == InitBeats /\ [][NextBeats]_vars

(***************************************************************************)
(* Beat detector: properties                                               *)
(***************************************************************************)
IsFlat(energies) == \A i, j \in DOMAIN energies : energies[i] = energies[j]
Returned(call) == call.result.kind = "BeatInfo"

\* C1: for every channel array and every positive sample rate, findBeats returns a bpm
\* that is an integer in [85, 175] and a confidence in [0.3, 1.0].
C1_FindBeatsReturnsInBand ==
    \A k \in DOMAIN calls :
        /\ Returned(calls[k])
        /\ calls[k].result.bpm \in 85..175
        /\ calls[k].result.confidence \in ((3 * ConfScale) \div 10)..ConfScale

\* What holds of the code: whenever findBeats returns, bpm and confidence are in the bands.
FindBeatsInBandWhenItReturns ==
    \A k \in DOMAIN calls :
        Returned(calls[k]) =>
            /\ calls[k].result.bpm \in 85..175
            /\ calls[k].result.confidence \in ((3 * ConfScale) \div 10)..ConfScale

C10_FlatCurveGivesDefaults ==
    \A k \in DOMAIN calls :
        IsFlat(energyCurve(calls[k].channelData, calls[k].sampleRate))
            => /\ Returned(calls[k])
               /\ calls[k].result.beats = <<>>
               /\ calls[k].result.bpm = 120
               /\ 10 * calls[k].result.confidence = 3 * ConfScale

\* whenever findBeats returns from a flat curve, it returns the defaults
FlatCurveGivesDefaultsWhenItReturns ==
    \A k \in DOMAIN calls :
        (Returned(calls[k]) /\ IsFlat(energyCurve(calls[k].channelData, calls[k].sampleRate)))
            => /\ calls[k].result.beats = <<>>
               /\ calls[k].result.bpm = 120
               /\ 10 * calls[k].result.confidence = 3 * ConfScale

\* findBeats has returned from a flat curve long enough for the scan loop to visit a window,
\* once on silence and once on a constant non-zero signal
FlatCurvesReturned ==
    \E j, k \in DOMAIN calls :
        LET ej == energyCurve(calls[j].channelData, calls[j].sampleRate)
            ek == energyCurve(calls[k].channelData, calls[k].sampleRate)
        IN /\ Returned(calls[j]) /\ Returned(calls[k])
           /\ Len(ej) >= 5 /\ IsFlat(ej) /\ ej[1] = 0
           /\ Len(ek) >= 5 /\ IsFlat(ek) /\ ek[1] > 0

(***************************************************************************)
(* Pipeline: createTransition as a process with one position per await     *)
(***************************************************************************)

ProgressScale == 10
MaxRuns == 2

Variants == {"basic", "stem"}
Files == {1, 2}

\* (the checkpoints with the post-mix one reported below the post-analysis one)
CheckpointMixLow(stage) ==
    CASE stage = "started" -> ProgressScale \div 10
      [] stage = "loaded" -> (3 * ProgressScale) \div 10
      [] stage = "decoded" -> (5 * ProgressScale) \div 10
      [] stage = "analysed" -> (7 * ProgressScale) \div 10
      [] stage = "mixed" -> (6 * ProgressScale) \div 10
      [] stage = "encoded" -> ProgressScale
\* the argument of this.onProgress?.(...) at each checkpoint of createTransition
Checkpoint(stage) ==
    CASE stage = "started" -> ProgressScale \div 10
      [] stage = "loaded" -> (3 * ProgressScale) \div 10
      [] stage = "decoded" -> (5 * ProgressScale) \div 10
      [] stage = "analysed" -> (7 * ProgressScale) \div 10
      [] stage = "mixed" -> (9 * ProgressScale) \div 10
      [] stage = "encoded" -> ProgressScale

\* this.onProgress?.(p): the callback the page passed records the value
Report(run, stage) == Append(run.log, Checkpoint(stage))

\* the errors a step of createTransition can fail with: an Error with its message, or a value
\* that is no Error (reader.onerror rejects with the ProgressEvent)
ToneError == [isError |-> TRUE, message |-> "Tone.start failed"]
ReadError == [isError |-> FALSE, message |-> ""]
DecodeError == [isError |-> TRUE, message |-> "Unable to decode audio data"]
AllocationError == [isError |-> TRUE, message |-> "Array buffer allocation failed"]

\* (the error rethrown as it was caught)
RejectedUnwrapped(run, error) ==
    [run EXCEPT !.pc = "rejected",
                !.result = [kind |-> "Error", message |-> <<error.message>>]]
\* catch (error) { throw new Error(`Failed to create mix: ${error instanceof Error ?
\* error.message : 'Unknown error'}`) }: nothing else is undone.  The message is kept as its
\* parts, in order
Rejected(run, error) ==
    [run EXCEPT !.pc = "rejected",
                !.result = [kind |-> "Error",
                            message |-> <<"Failed to create mix: ",
                                          IF error.isError THEN error.message
                                          ELSE "Unknown error">>]]

InitTransition == NothingInvoked

\* createTransition is called: the body runs up to its first await
StartTransition ==
    /\ Len(runs) < MaxRuns
    /\ \E variant \in Variants, toneRunning \in BOOLEAN :
          LET run == [variant |-> variant, pc |-> "toneStarting", settled |-> {},
                      log |-> <<>>, ctxOpen |-> FALSE, wav |-> FALSE, result |-> <<>>]
          IN runs' = Append(runs,
                 IF toneRunning
                 THEN [run EXCEPT !.pc = "loading", !.log = Report(run, "started")]
                 ELSE run)

\* await Tone.start() resolves: 0.1 is reported and both loads begin
ToneStarted(r) ==
    /\ runs[r].pc = "toneStarting"
    /\ runs' = [runs EXCEPT ![r] = [@ EXCEPT !.pc = "loading", !.log = Report(runs[r], "started")]]

ToneStartRejected(r) ==
    /\ runs[r].pc = "toneStarting"
    /\ runs' = [runs EXCEPT ![r] = Rejected(@, ToneError)]

\* reader.onload of one file; Promise.all settles when both have resolved
LoadResolved(r, f) ==
    /\ runs[r].pc = "loading"
    /\ f \notin runs[r].settled
    /\ runs' = [runs EXCEPT ![r] =
                   IF @.settled \cup {f} = Files
                   THEN [@ EXCEPT !.pc = "loaded", !.settled = {}]
                   ELSE [@ EXCEPT !.settled = @ \cup {f}]]

\* reader.onerror of one file rejects Promise.all
LoadRejected(r, f) ==
    /\ runs[r].pc = "loading"
    /\ f \notin runs[r].settled
    /\ runs' = [runs EXCEPT ![r] = Rejected(@, ReadError)]

\* after the loads: 0.3 is reported, the AudioContext is made and both decodes begin
AfterLoad(r) ==
    /\ runs[r].pc = "loaded"
    /\ runs' = [runs EXCEPT ![r] =
                   [@ EXCEPT !.pc = "decoding", !.log = Report(runs[r], "loaded"), !.ctxOpen = TRUE]]

DecodeResolved(r, f) ==
    /\ runs[r].pc = "decoding"
    /\ f \notin runs[r].settled
    /\ runs' = [runs EXCEPT ![r] =
                   IF @.settled \cup {f} = Files
                   THEN [@ EXCEPT !.pc = "decoded", !.settled = {}]
                   ELSE [@ EXCEPT !.settled = @ \cup {f}]]

DecodeRejected(r, f) ==
    /\ runs[r].pc = "decoding"
    /\ f \notin runs[r].settled
    /\ runs' = [runs EXCEPT ![r] = Rejected(@, DecodeError)]

\* after the decodes: 0.5, [removeVocals,] findBeats twice, 0.7, findMixPoints and the body of
\* createMix; the analysis can throw where it allocates its arrays, createMix where it
\* allocates the output buffer
AfterDecode(r) ==
    /\ runs[r].pc = "decoded"
    /\ \E outcome \in {"analysisThrows", "mixThrows", "mixed"} :
          LET analysed == [runs[r] EXCEPT !.log = Report(runs[r], "decoded")]
              mixed == [analysed EXCEPT !.log = Report(analysed, "analysed")]
          IN runs' = [runs EXCEPT ![r] =
                         CASE outcome = "analysisThrows" -> Rejected(analysed, AllocationError)
                           [] outcome = "mixThrows" -> Rejected(mixed, AllocationError)
                           [] outcome = "mixed" -> [mixed EXCEPT !.pc = "mixed"]]

\* after await createMix: 0.9, audioBufferToWav (which can throw where it allocates the
\* ArrayBuffer), the Blob, 1, audioContext.close() and the return
AfterMix(r) ==
    /\ runs[r].pc = "mixed"
    /\ \E allocated \in BOOLEAN :
          LET rendered == [runs[r] EXCEPT !.log = Report(runs[r], "mixed")]
          IN runs' = [runs EXCEPT ![r] =
                         IF allocated
                         THEN [rendered EXCEPT !.pc = "resolved", !.ctxOpen = FALSE,
                                               !.wav = TRUE,
                                               !.result = [kind |-> "Blob"],
                                               !.log = Report(rendered, "encoded")]
                         ELSE Rejected(rendered, AllocationError)]

NextTransition ==
    /\ \/ StartTransition
       \/ \E r \in DOMAIN runs : ToneStarted(r)
       \/ \E r \in DOMAIN runs : ToneStartRejected(r)
       \/ \E r \in DOMAIN runs, f \in Files : LoadResolved(r, f)
       \/ \E r \in DOMAIN runs, f \in Files : LoadRejected(r, f)
       \/ \E r \in DOMAIN runs : AfterLoad(r)
       \/ \E r \in DOMAIN runs, f \in Files : DecodeResolved(r, f)
       \/ \E r \in DOMAIN runs, f \in Files : DecodeRejected(r, f)
       \/ \E r \in DOMAIN runs : AfterDecode(r)
       \/ \E r \in DOMAIN runs : AfterMix(r)
    /\ UNCHANGED <<calls, selections, encodings, mixes, analyses, page>>

SpecTransition == InitTransition /\ [][NextTransition]_vars

(***************************************************************************)
(* Pipeline: properties                                                    *)
(***************************************************************************)

IsPrefixOf(s, t) == Len(s) <= Len(t) /\ \A i \in DOMAIN s : s[i] = t[i]

\* C2: within one createTransition run the values given to the progress callback are each in
\* [0,1] and never decrease: they are, in order, 0.1, 0.3, 0.5, 0.7, 0.9 and 1.0 (as far as the
\* run got); nothing is reported after 1.0, and a run that resolves has reported 1.0 last.
C2_ProgressMonotoneEndsAtOne ==
    \A r \in DOMAIN runs :
        LET log == runs[r].log
        IN /\ \A i \in DOMAIN log : 0 <= log[i] /\ log[i] <= ProgressScale
           /\ \A i, j \in DOMAIN log : i <= j => log[i] <= log[j]
           /\ IsPrefixOf([i \in DOMAIN log |-> 10 * log[i]],
                         <<ProgressScale, 3 * ProgressScale, 5 * ProgressScale,
                           7 * ProgressScale, 9 * ProgressScale, 10 * ProgressScale>>)
           /\ \A i \in DOMAIN log : log[i] = ProgressScale => i = Len(log)
           /\ runs[r].pc = "resolved" => (log # <<>> /\ log[Len(log)] = ProgressScale)

\* a basic run and a stem run, both resolved with all six values reported
C2_Witness ==
    \E r, q \in DOMAIN runs :
        /\ runs[r].variant = "basic" /\ runs[q].variant = "stem"
        /\ runs[r].pc = "resolved" /\ runs[q].pc = "resolved"
        /\ Len(runs[r].log) = 6 /\ Len(runs[q].log) = 6

(***************************************************************************)
(* Mix-point selector: findMixPoints (identical in both variants)          *)
(*                                                                         *)
(* Percentages are kept in twentieths (0.6 = 12/20), a time t seconds of a *)
(* track with rate sr as the integer t * sr * PctDen, an energy e as       *)
(* floor(e * EnergyScale), and a candidate's score as                      *)
(* score * EnergyScale * 2 * (endPct - startPct) * length.                 *)
(***************************************************************************)

PctDen == 20
EnergyScale == 10

\* buffer.duration * pct, in ticks: duration = length / sampleRate
DurationTimes(buffer, pct) == buffer.length * pct

\* Math.sqrt(energy / windowSize) over the 100 ms after the beat, or 0.5 near the end
calculateEnergy(buffer, beat) ==
    LET windowSize == FloorPct(buffer.sampleRate, 10)
    IN IF beat + windowSize >= buffer.length THEN EnergyScale \div 2
       ELSE Isqrt((EnergyScale * EnergyScale * WindowSum(buffer.channelData, beat, windowSize))
                  \div (SampleDen * SampleDen * windowSize))

\* 1 - |normalizedTime - 0.5|, times 2 * (endPct - startPct) * length
getPositionScore(beat, buffer, startPct, endPct) ==
    LET span == (endPct - startPct) * buffer.length
    IN 2 * span - Abs(2 * (PctDen * beat - startPct * buffer.length) - span)

InWindow(beat, buffer, startPct, endPct) ==
    /\ PctDen * beat >= DurationTimes(buffer, startPct)
    /\ PctDen * beat <= DurationTimes(buffer, endPct)

\* candidates.sort((a, b) => b.score - a.score): descending and stable
SortByScore(candidates) ==
    LET before(i, j) == \/ candidates[i].score > candidates[j].score
                        \/ candidates[i].score = candidates[j].score /\ i < j
        rank(i) == Cardinality({j \in DOMAIN candidates : before(j, i)})
    IN [k \in DOMAIN candidates |->
           candidates[CHOOSE i \in DOMAIN candidates : rank(i) = k - 1]]

MaxCandidates == 5

SelectInWindow(beats, buffer, startPct, endPct) ==
    SelectSeq(beats, LAMBDA beat : InWindow(beat, buffer, startPct, endPct))

findCandidates(beatInfo, buffer, startPct, endPct) ==
    LET inWindow == SelectInWindow(beatInfo.beats, buffer, startPct, endPct)
        candidates == [i \in DOMAIN inWindow |->
                          LET energy == calculateEnergy(buffer, inWindow[i])
                          IN [time |-> PctDen * inWindow[i],
                              energy |-> energy,
                              score |-> energy * getPositionScore(inWindow[i], buffer,
                                                                  startPct, endPct)]]
        sorted == SortByScore(candidates)
    IN SubSeq(sorted, 1, Min(MaxCandidates, Len(sorted)))

\* (a default point with no energy and no score)
defaultPointQuiet(buffer, pct, startPct, endPct) ==
    [time |-> DurationTimes(buffer, pct), energy |-> 0, score |-> 0]
\* (a default point placed at the end of the track)
defaultPointAtEnd(buffer, pct, startPct, endPct) ==
    [time |-> DurationTimes(buffer, PctDen),
     energy |-> EnergyScale \div 2,
     score |-> (EnergyScale * 2 * (endPct - startPct) * buffer.length) \div 2]
\* { time: buffer.duration * pct, energy: 0.5, score: 0.5 }
defaultPoint(buffer, pct, startPct, endPct) ==
    [time |-> DurationTimes(buffer, pct),
     energy |-> EnergyScale \div 2,
     score |-> (EnergyScale * 2 * (endPct - startPct) * buffer.length) \div 2]

\* (the product of the two scores, without the energy match)
pairScoreUnmatched(p1, p2) == EnergyScale * p1.score * p2.score
\* energyMatch * p1.score * p2.score, times EnergyScale and both score denominators
pairScore(p1, p2) == (EnergyScale - Abs(p1.energy - p2.energy)) * p1.score * p2.score

StartPct1 == 12
EndPct1 == 17
DefaultPct1 == 14
StartPct2 == 3
EndPct2 == 10
DefaultPct2 == 6

findMixPoints(beatInfo1, beatInfo2, buffer1, buffer2) ==
    LET candidates1 == findCandidates(beatInfo1, buffer1, StartPct1, EndPct1)
        candidates2 == findCandidates(beatInfo2, buffer2, StartPct2, EndPct2)
        initial == [point1 |-> IF candidates1 # <<>> THEN candidates1[1]
                               ELSE defaultPoint(buffer1, DefaultPct1, StartPct1, EndPct1),
                    point2 |-> IF candidates2 # <<>> THEN candidates2[1]
                               ELSE defaultPoint(buffer2, DefaultPct2, StartPct2, EndPct2)]
        pairs == (DOMAIN candidates1) \X (DOMAIN candidates2)
        scoreOf(pr) == pairScore(candidates1[pr[1]], candidates2[pr[2]])
        earlier(a, b) == a[1] < b[1] \/ (a[1] = b[1] /\ a[2] < b[2])
        improving == {pr \in pairs : scoreOf(pr) > 0}
    IN IF improving = {} THEN initial
       ELSE LET best == CHOOSE pr \in improving :
                            \A other \in improving :
                                \/ scoreOf(other) < scoreOf(pr)
                                \/ scoreOf(other) = scoreOf(pr) /\ ~earlier(other, pr)
            IN [point1 |-> candidates1[best[1]], point2 |-> candidates2[best[2]]]

TrackLength == 40

Ramp(n) == [i \in 1..n |-> (i % 5) * (SampleDen \div 4)]
SelectorBuffers ==
    {[sampleRate |-> 16, length |-> TrackLength, channelData |-> Ramp(TrackLength)],
     [sampleRate |-> 64, length |-> TrackLength, channelData |-> Ramp(TrackLength)],
     [sampleRate |-> 16, length |-> TrackLength, channelData |-> Zeros(TrackLength)],
     [sampleRate |-> 32, length |-> 1, channelData |-> Zeros(1)]}
SelectorBeats ==
    {<<>>,
     [i \in 1..TrackLength |-> i - 1],
     <<(3 * TrackLength) \div 20, TrackLength \div 2, (3 * TrackLength) \div 5,
       (17 * TrackLength) \div 20>>,
     <<(3 * TrackLength) \div 20 - 1, TrackLength \div 2 + 1, (3 * TrackLength) \div 5 - 1,
       (17 * TrackLength) \div 20 + 1>>}
SelectorBeatInfos == {[bpm |-> DefaultBpm, beats |-> b, confidence |-> LowConfidence] :
                         b \in SelectorBeats}

InitMixPoints == NothingInvoked

\* one invocation of findMixPoints; only the latest one is kept
InvokeFindMixPoints ==
    \E beatInfo1, beatInfo2 \in SelectorBeatInfos, buffer1, buffer2 \in SelectorBuffers :
        selections' = <<[beatInfo1 |-> beatInfo1, beatInfo2 |-> beatInfo2,
                         buffer1 |-> buffer1, buffer2 |-> buffer2,
                         result |-> findMixPoints(beatInfo1, beatInfo2, buffer1, buffer2)]>>

NextMixPoints == InvokeFindMixPoints /\ UNCHANGED <<calls, runs, encodings, mixes, analyses, page>>

SpecMixPoints == InitMixPoints /\ [][NextMixPoints]_vars

(***************************************************************************)
(* Mix-point selector: properties                                          *)
(***************************************************************************)

\* C3: both points returned by findMixPoints lie in their track's window, 0.6 to 0.85 of the
\* duration for track A and 0.15 to 0.5 for track B, also when a default point is used.
C3_MixPointsInsideWindows ==
    \A k \in DOMAIN selections :
        LET sel == selections[k]
        IN /\ 10 * sel.result.point1.time >= 6 * PctDen * sel.buffer1.length
           /\ 100 * sel.result.point1.time <= 85 * PctDen * sel.buffer1.length
           /\ 100 * sel.result.point2.time >= 15 * PctDen * sel.buffer2.length
           /\ 10 * sel.result.point2.time <= 5 * PctDen * sel.buffer2.length

\* track A has beats but none in its window, so its default is used, while track B's point
\* is one of more than five candidates
C3_Witness ==
    \E k \in DOMAIN selections :
        LET sel == selections[k]
        IN /\ sel.beatInfo1.beats # <<>>
           /\ SelectInWindow(sel.beatInfo1.beats, sel.buffer1, StartPct1, EndPct1) = <<>>
           /\ sel.result.point1.time = DurationTimes(sel.buffer1, DefaultPct1)
           /\ Len(SelectInWindow(sel.beatInfo2.beats, sel.buffer2, StartPct2, EndPct2)) > 5
           /\ sel.result.point2.time # DurationTimes(sel.buffer2, DefaultPct2)
           /\ sel.result.point2.energy > 0

(***************************************************************************)
(* Container encoder: audioBufferToWav (identical in both variants)        *)
(*                                                                         *)
(* The ArrayBuffer is the sequence of its bytes; byte offset k of the code *)
(* is element k + 1.                                                       *)
(***************************************************************************)

RECURSIVE Flatten(_)
Flatten(seqs) == IF seqs = <<>> THEN <<>> ELSE Head(seqs) \o Flatten(Tail(seqs))

\* writeString: the char codes of the four tags
TagRIFF == <<82, 73, 70, 70>>
TagWAVE == <<87, 65, 86, 69>>
TagFmt == <<102, 109, 116, 32>>
TagData == <<100, 97, 116, 97>>

\* (the four bytes most significant first)
Uint32BE(v) ==
    <<(v \div 16777216) % 256, (v \div 65536) % 256, (v \div 256) % 256, v % 256>>
\* view.setUint32(offset, v, true)
Uint32LE(v) ==
    <<v % 256, (v \div 256) % 256, (v \div 65536) % 256, (v \div 16777216) % 256>>
\* view.setUint16(offset, v, true)
Uint16LE(v) == <<v % 256, (v \div 256) % 256>>

\* the integer part of num / den, as the conversion to Int16 takes it
TruncDiv(num, den) == IF num >= 0 THEN num \div den ELSE -((-num) \div den)

\* view.setInt16(offset, x, true): truncate, wrap to 16 bits, two's complement
Int16LE(num, den) == Uint16LE(TruncDiv(num, den) % 65536)

\* Math.max(-1, Math.min(1, sample))
ClampUnit(sample) == Max(-SampleDen, Min(SampleDen, sample))

PcmFull == 32767

\* the two bytes written for one sample
EncodeSample(sample) == Int16LE(ClampUnit(sample) * PcmFull, SampleDen)

audioBufferToWav(buffer) ==
    LET length == buffer.length
        channels == buffer.numberOfChannels
        sampleRate == buffer.sampleRate
        dataSize == length * channels * 2
        frames == [i \in 1..length |->
                      Flatten([channel \in 1..channels |->
                                  EncodeSample(buffer.channelData[channel][i])])]
    IN TagRIFF \o Uint32LE(36 + dataSize) \o TagWAVE \o TagFmt
       \o Uint32LE(16) \o Uint16LE(1) \o Uint16LE(channels) \o Uint32LE(sampleRate)
       \o Uint32LE(sampleRate * channels * 2) \o Uint16LE(channels * 2) \o Uint16LE(16)
       \o TagData \o Uint32LE(dataSize)
       \o Flatten(frames)

MaxWavLen == 2
WavChannelCounts == {1, 2}
WavSamples == {-(SampleDen + 1), -1, SampleDen - 1}
WavRates == {8000, 44100, 96000}
WavBuffers ==
    UNION {{[length |-> n, numberOfChannels |-> c, sampleRate |-> r, channelData |-> d] :
               d \in [1..c -> [1..n -> WavSamples]], r \in WavRates} :
           n \in 1..MaxWavLen, c \in WavChannelCounts}

InitWav == NothingInvoked

\* one invocation of audioBufferToWav
InvokeAudioBufferToWav ==
    /\ encodings = <<>>
    /\ \E buffer \in WavBuffers :
          encodings' = <<[buffer |-> buffer, bytes |-> audioBufferToWav(buffer)]>>

NextWav == InvokeAudioBufferToWav /\ UNCHANGED <<calls, runs, selections, mixes, analyses, page>>

SpecWav == InitWav /\ [][NextWav]_vars

(***************************************************************************)
(* Container encoder: properties                                           *)
(***************************************************************************)

\* the little-endian reading of the field at a byte offset
ReadUint16LE(bytes, offset) == bytes[offset + 1] + 256 * bytes[offset + 2]
ReadUint32LE(bytes, offset) ==
    bytes[offset + 1] + 256 * bytes[offset + 2] + 65536 * bytes[offset + 3]
    + 16777216 * bytes[offset + 4]

\* C4: for N samples per channel, C channels and rate R, audioBufferToWav returns exactly
\* 44 + N*C*2 bytes starting with 'RIFF' and holding, little-endian, chunkSize 36 + N*C*2 at
\* offset 4, C at 22, R at 24, byteRate R*C*2 at 28, blockAlign C*2 at 32, 16 bits per sample
\* at 34 and dataSize N*C*2 at 40.
C4_WavSizeAndHeader ==
    \A k \in DOMAIN encodings :
        LET bytes == encodings[k].bytes
            N == encodings[k].buffer.length
            C == encodings[k].buffer.numberOfChannels
            R == encodings[k].buffer.sampleRate
        IN /\ Len(bytes) = 44 + N * C * 2
           /\ \A i \in DOMAIN bytes : bytes[i] \in 0..255
           /\ SubSeq(bytes, 1, 4) = <<82, 73, 70, 70>>
           /\ ReadUint32LE(bytes, 4) = 36 + N * C * 2
           /\ ReadUint16LE(bytes, 22) = C
           /\ ReadUint32LE(bytes, 24) = R
           /\ ReadUint32LE(bytes, 28) = R * C * 2
           /\ ReadUint16LE(bytes, 32) = C * 2
           /\ ReadUint16LE(bytes, 34) = 16
           /\ ReadUint32LE(bytes, 40) = N * C * 2

\* a stereo buffer of two frames at 44100 Hz has been encoded
C4_Witness ==
    \E k \in DOMAIN encodings :
        /\ encodings[k].buffer.length = 2
        /\ encodings[k].buffer.numberOfChannels = 2
        /\ encodings[k].buffer.sampleRate = 44100
        /\ Len(encodings[k].bytes) = 52

(***************************************************************************)
(* Crossfader: createMix, basic variant and stem variant                   *)
(*                                                                         *)
(* An output sample is kept as an integer numerator over the denominator   *)
(* SampleDen * MixDen(variant, mixSamples): every gain of the code is a    *)
(* fraction whose denominator divides it.  An AudioBuffer's samples are    *)
(* its channelData over SampleDen * den.  A mix point's time is in the     *)
(* selector's ticks of its own track.                                      *)
(***************************************************************************)

MixDuration == 20

mixSamplesOf(buffer1) == MixDuration * buffer1.sampleRate

\* (the channel count of the first buffer alone)
mixChannelsOfFirst(buffer1, buffer2) == buffer1.numberOfChannels
\* Math.max(buffer1.numberOfChannels, buffer2.numberOfChannels)
mixChannelsOf(buffer1, buffer2) == Max(buffer1.numberOfChannels, buffer2.numberOfChannels)

\* Math.floor(mixPoint.time * sampleRate), sampleRate being buffer1's for both points
startSampleOf(mixPoint, track, buffer1) ==
    (mixPoint.time * buffer1.sampleRate) \div (PctDen * track.sampleRate)

\* (the last sample held beyond the end of the data)
SampleAtHeld(data, index) == IF index < Len(data) THEN data[index + 1] ELSE data[Len(data)]
\* data[index] when index < data.length, else 0 (index counted from 0)
SampleAt(data, index) == IF index < Len(data) THEN data[index + 1] ELSE 0

\* buffer.getChannelData(Math.min(channel, buffer.numberOfChannels - 1)), channel from 0
ChannelFor(buffer, channel) == buffer.channelData[Min(channel, buffer.numberOfChannels - 1) + 1]

\* (the linear crossfade without the factor 0.8)
BasicSampleNoHeadroom(sample1, sample2, i, mixSamples) ==
    5 * (sample1 * (mixSamples - i) + sample2 * i)
\* basic variant: (sample1 * (1 - progress) + sample2 * progress) * 0.8, times 5 * mixSamples
BasicSample(sample1, sample2, i, mixSamples) ==
    4 * (sample1 * (mixSamples - i) + sample2 * i)

\* (a mono buffer attenuated like a centre channel)
extractVocalsAttenuated(buffer) ==
    [numberOfChannels |-> buffer.numberOfChannels,
     length |-> buffer.length,
     sampleRate |-> buffer.sampleRate,
     den |-> 5 * buffer.den,
     channelData |-> [c \in 1..buffer.numberOfChannels |-> [i \in 1..buffer.length |->
                         4 * buffer.channelData[c][i]]]]
\* stem variant, extractVocals: a new buffer holding center * 0.8 on every channel, its
\* samples kept in fifths of the input's unit; a buffer of fewer than 2 channels is returned
\* itself
extractVocals(buffer) ==
    IF buffer.numberOfChannels < 2 THEN buffer
    ELSE [numberOfChannels |-> buffer.numberOfChannels,
          length |-> buffer.length,
          sampleRate |-> buffer.sampleRate,
          den |-> 5 * buffer.den,
          channelData |-> [c \in 1..buffer.numberOfChannels |-> [i \in 1..buffer.length |->
                              2 * (buffer.channelData[1][i] + buffer.channelData[2][i])]]]

\* (the beats as what is left of the full centre channel)
extractBeatsFullCenter(buffer) ==
    IF buffer.numberOfChannels < 2 THEN buffer
    ELSE [numberOfChannels |-> buffer.numberOfChannels,
          length |-> buffer.length,
          sampleRate |-> buffer.sampleRate,
          den |-> 2 * buffer.den,
          channelData |-> [c \in 1..buffer.numberOfChannels |-> [i \in 1..buffer.length |->
                              2 * buffer.channelData[c][i]
                              - (buffer.channelData[1][i] + buffer.channelData[2][i])]]]

\* stem variant, extractBeats: a new buffer holding originalData - center * 0.8, its samples
\* kept in fifths of the input's unit; a buffer of fewer than 2 channels is returned itself
extractBeats(buffer) ==
    IF buffer.numberOfChannels < 2 THEN buffer
    ELSE [numberOfChannels |-> buffer.numberOfChannels,
          length |-> buffer.length,
          sampleRate |-> buffer.sampleRate,
          den |-> 5 * buffer.den,
          channelData |-> [c \in 1..buffer.numberOfChannels |-> [i \in 1..buffer.length |->
                              5 * buffer.channelData[c][i]
                              - 2 * (buffer.channelData[1][i] + buffer.channelData[2][i])]]]

\* stem.getChannelData(Math.min(channel, stem.numberOfChannels - 1)), channel from 0, read
\* in fifths of the input's unit
StemChannel(stem, channel) ==
    LET data == stem.channelData[Min(channel, stem.numberOfChannels - 1) + 1]
    IN [i \in DOMAIN data |-> (5 \div stem.den) * data[i]]

\* the four gains of the stem variant at output index i, times 20 * mixSamples
\* (track A's vocals faded out linearly over the whole mix)
vocalFadeOutLinear(i, mixSamples) == 20 * (mixSamples - i)
vocalFadeOut(i, mixSamples) == 20 * Max(0, mixSamples - 2 * i)
vocalFadeIn(i, mixSamples) == 20 * Max(0, 2 * i - mixSamples)
beatFadeOut(i, mixSamples) ==
    IF 5 * i < 2 * mixSamples THEN 20 * mixSamples
    ELSE IF 5 * i < 3 * mixSamples THEN 2 * (16 * mixSamples - 15 * i)
    ELSE 35 * (mixSamples - i)
\* (track B's beats faded in linearly over the whole mix)
beatFadeInLinear(i, mixSamples) == 20 * i
beatFadeIn(i, mixSamples) ==
    IF 5 * i < 2 * mixSamples THEN 0
    ELSE IF 5 * i < 3 * mixSamples THEN 14 * (5 * i - 2 * mixSamples)
    ELSE 5 * (mixSamples + 3 * i)

\* stem variant: (vocals + beats) * 0.8, times 500 * mixSamples
StemSample(v1, v2, b1, b2, i, mixSamples) ==
    4 * (v1 * vocalFadeOut(i, mixSamples) + v2 * vocalFadeIn(i, mixSamples)
         + b1 * beatFadeOut(i, mixSamples) + b2 * beatFadeIn(i, mixSamples))

MixDen(variant, mixSamples) == IF variant = "basic" THEN 5 * mixSamples ELSE 500 * mixSamples

createMix(variant, buffer1, buffer2, mixPoint1, mixPoint2) ==
    LET mixSamples == mixSamplesOf(buffer1)
        channels == mixChannelsOf(buffer1, buffer2)
        startSample1 == startSampleOf(mixPoint1, buffer1, buffer1)
        startSample2 == startSampleOf(mixPoint2, buffer2, buffer1)
        vocals1 == extractVocals(buffer1)
        vocals2 == extractVocals(buffer2)
        beats1 == extractBeats(buffer1)
        beats2 == extractBeats(buffer2)
        basic(channel, i) ==
            BasicSample(SampleAt(ChannelFor(buffer1, channel), startSample1 + i),
                        SampleAt(ChannelFor(buffer2, channel), startSample2 + i),
                        i, mixSamples)
        stem(channel, i) ==
            StemSample(SampleAt(StemChannel(vocals1, channel), startSample1 + i),
                       SampleAt(StemChannel(vocals2, channel), startSample2 + i),
                       SampleAt(StemChannel(beats1, channel), startSample1 + i),
                       SampleAt(StemChannel(beats2, channel), startSample2 + i),
                       i, mixSamples)
    IN [numberOfChannels |-> channels,
        length |-> mixSamples,
        sampleRate |-> buffer1.sampleRate,
        den |-> MixDen(variant, mixSamples),
        channelData |-> [c \in 1..channels |-> [k \in 1..mixSamples |->
                            IF variant = "basic" THEN basic(c - 1, k - 1)
                            ELSE stem(c - 1, k - 1)]]]

\* the four buffers extractVocals and extractBeats return to createMix (stem variant only)
stemsOf(variant, buffer1, buffer2) ==
    IF variant = "basic" THEN <<>>
    ELSE [vocals1 |-> extractVocals(buffer1), vocals2 |-> extractVocals(buffer2),
          beats1 |-> extractBeats(buffer1), beats2 |-> extractBeats(buffer2)]

\* <<sampleRate, length, numberOfChannels>>; sample rates are scaled down to 1 and 2, so
\* that the 20 s output has 20 or 40 frames
MixShapes == {<<1, 30, 1>>, <<1, 30, 2>>, <<2, 50, 2>>, <<2, 1, 1>>, <<1, 10, 3>>}
MixBuffers ==
    {[sampleRate |-> sh[1], length |-> sh[2], numberOfChannels |-> sh[3], den |-> 1,
      channelData |-> [c \in 1..sh[3] |-> [i \in 1..sh[2] |-> ((i + 2 * c) % 5) - 2]]] :
        sh \in MixShapes}
MixTimes(buffer) == {0, 14 * buffer.length, PctDen * (buffer.length - 1)}

InitMix == NothingInvoked

\* one invocation of createMix; the stems it split its inputs into are kept with the result
InvokeCreateMix ==
    /\ mixes = <<>>
    /\ \E variant \in Variants, buffer1, buffer2 \in MixBuffers :
          \E time1 \in MixTimes(buffer1), time2 \in MixTimes(buffer2) :
              LET mixPoint1 == [time |-> time1, energy |-> EnergyScale \div 2, score |-> 0]
                  mixPoint2 == [time |-> time2, energy |-> EnergyScale \div 2, score |-> 0]
              IN mixes' = <<[variant |-> variant, buffer1 |-> buffer1, buffer2 |-> buffer2,
                             mixPoint1 |-> mixPoint1, mixPoint2 |-> mixPoint2,
                             stems |-> stemsOf(variant, buffer1, buffer2),
                             result |-> createMix(variant, buffer1, buffer2,
                                                  mixPoint1, mixPoint2)]>>

NextMix == InvokeCreateMix /\ UNCHANGED <<calls, runs, selections, encodings, analyses, page>>

SpecMix == InitMix /\ [][NextMix]_vars

(***************************************************************************)
(* Crossfader: properties                                                  *)
(***************************************************************************)

\* C5: the buffer returned by createMix, in both variants, has exactly 20 * sampleRate samples
\* in every channel and as many channels as the larger of the two inputs.
C5_MixLengthAndChannels ==
    \A k \in DOMAIN mixes :
        LET mix == mixes[k]
            larger == IF mix.buffer1.numberOfChannels >= mix.buffer2.numberOfChannels
                      THEN mix.buffer1.numberOfChannels ELSE mix.buffer2.numberOfChannels
        IN /\ mix.result.length = 20 * mix.buffer1.sampleRate
           /\ mix.result.sampleRate = mix.buffer1.sampleRate
           /\ mix.result.numberOfChannels = larger
           /\ Len(mix.result.channelData) = larger
           /\ \A c \in DOMAIN mix.result.channelData :
                  Len(mix.result.channelData[c]) = 20 * mix.buffer1.sampleRate

\* a stem mix of a mono first track with a longer stereo second track of a different rate
C5_Witness ==
    \E k \in DOMAIN mixes :
        /\ mixes[k].variant = "stem"
        /\ mixes[k].buffer1.numberOfChannels = 1
        /\ mixes[k].buffer2.numberOfChannels = 2
        /\ mixes[k].buffer1.sampleRate # mixes[k].buffer2.sampleRate
        /\ mixes[k].result.numberOfChannels = 2
        /\ mixes[k].result.length = 20

(***************************************************************************)
(* Energy classifier: the canonical five-category EnergyDetector and the   *)
(* guarded three-category variant                                          *)
(*                                                                         *)
(* A number that is a ratio is kept as [num, den]; den = 0 stands for the  *)
(* result of a division by zero (NaN or an infinity).  Features: rms and   *)
(* beatStrength in tenths (floor), zcr in hundredths (floor), the spectral *)
(* centroid in steps of 400 Hz, tempo in whole BPM (floor), brightness in  *)
(* Hz, peakAmplitude in samples' own unit 1 / SampleDen.                   *)
(***************************************************************************)

EnergyVariants == {"canonical", "guarded"}

energyLevels(variant) ==
    IF variant = "canonical" THEN <<"Chill Vibe", "Lounge", "Groove", "Party", "Club Rager">>
    ELSE <<"Chill", "Groove", "Club">>

RECURSIVE Gcd(_, _)
Gcd(a, b) == IF b = 0 THEN a ELSE Gcd(b, a % b)

\* the same ratio in lowest terms with a positive denominator
Reduced(f) ==
    IF f.den = 0 THEN [num |-> 0, den |-> 0]
    ELSE LET g == Gcd(Abs(f.num), Abs(f.den))
             sign == IF f.den < 0 THEN -1 ELSE 1
         IN [num |-> sign * (f.num \div g), den |-> sign * (f.den \div g)]

\* scores of the canonical variant are kept times ScoreDen; a weight is w / 10
ScoreDen == 50400
Part(w, num, den) == (w * (ScoreDen \div 10) * num) \div den

canonicalScores(f) ==
    <<Part(3, 180 - Min(f.tempo, 180), 180) + Part(3, 5 - Min(f.rms, 5), 5)
          + Part(4, 10 - Min(f.spectralCentroid, 10), 10),
      Part(4, 90 - Abs(f.tempo - 90), 90) + Part(3, 3 - Abs(f.rms - 3), 3)
          + Part(3, 10 - Min(f.zcr, 10), 10),
      Part(4, 120 - Abs(f.tempo - 120), 120) + Part(3, 4 - Abs(f.rms - 4), 4)
          + Part(3, Min(f.beatStrength, 5), 5),
      Part(4, Min(f.tempo, 180), 180) + Part(3, Min(f.rms, 6), 6)
          + Part(3, Min(f.spectralCentroid, 10), 10),
      Part(5, Min(f.tempo, 180), 180) + Part(3, Min(f.rms, 7), 7)
          + Part(2, Min(5 * f.peakAmplitude, 4 * SampleDen), 4 * SampleDen)>>

\* for (i = 1; i < 5; i++) if (scores[i] > bestScore): the first class with the largest score
FirstLargest(scores) ==
    CHOOSE i \in DOMAIN scores :
        /\ \A j \in DOMAIN scores : scores[j] <= scores[i]
        /\ \A j \in DOMAIN scores : j < i => scores[j] < scores[i]

\* confidence: bestScore, the winner's score before normalization
RawConfidence(bestScore, totalScore) == [num |-> bestScore, den |-> ScoreDen]

predictEnergyLevel(f) ==
    LET scores == canonicalScores(f)
        bestClass == FirstLargest(scores)
        totalScore == SumSeq(scores)
    IN [energy_level |-> energyLevels("canonical")[bestClass],
        confidence |-> RawConfidence(scores[bestClass], totalScore),
        class_id |-> bestClass - 1,
        probabilities |-> [i \in DOMAIN scores |-> [num |-> scores[i], den |-> totalScore]]]

\* (an award that forgets the last branch, 'else clubScore += weight')
BucketWithoutClub(weight, isLow, isMid) ==
    IF isLow THEN <<weight, 0, 0>> ELSE IF isMid THEN <<0, weight, 0>> ELSE <<0, 0, 0>>
\* guarded variant: each of the four features adds its weight (in tenths) to one category
Bucket(weight, isLow, isMid) ==
    IF isLow THEN <<weight, 0, 0>> ELSE IF isMid THEN <<0, weight, 0>> ELSE <<0, 0, weight>>

\* the award of each of the four features, in the order of the code: rms (0.4), tempo (0.3),
\* peak amplitude (0.2), brightness (0.1)
featureAwards(f) ==
    LET normTempo == Max(0, Min(120, f.tempo - 60))
        normBright == Max(0, Min(6000, f.brightness - 1000))
    IN <<Bucket(4, f.rms < 1, f.rms < 2),
         Bucket(3, 10 * normTempo < 360, 10 * normTempo < 840),
         Bucket(2, 15 * f.peakAmplitude < 4 * SampleDen, 15 * f.peakAmplitude < 7 * SampleDen),
         Bucket(1, 10 * normBright < 18000, 10 * normBright < 42000)>>

classifyWithTrainedModel(f) ==
    LET awards == featureAwards(f)
        scores == [i \in 1..3 |-> awards[1][i] + awards[2][i] + awards[3][i] + awards[4][i]]
        totalScore == SumSeq(scores)
        bestIdx == FirstLargest(scores)
    IN [energy_level |-> energyLevels("guarded")[bestIdx],
        confidence |-> [num |-> scores[bestIdx], den |-> totalScore],
        class_id |-> bestIdx - 1,
        probabilities |-> [i \in 1..3 |-> [num |-> scores[i], den |-> totalScore]]]

(***************************************************************************)
(* The same scores as the JavaScript numbers they are: IEEE 754 doubles.   *)
(* A double close to a number of tenths is kept exactly as [tenths, off],  *)
(* standing for tenths / 10 + off * DoubleUnit with DoubleUnit =           *)
(* 2^-56 / 5; the doubles between 2^e and 2^(e+1) are 5 * 2^(e+4) units    *)
(* apart.  (0.1 is [1, 2], 0.2 is [2, 4], 0.3 is [3, -4], 0.4 is [4, 8].)  *)
(***************************************************************************)

DoubleZero == [tenths |-> 0, off |-> 0]
DoubleOne == [tenths |-> 10, off |-> 0]

\* the distance between neighbouring doubles around tenths / 10 + off units, in units
DoubleSpacing(tenths, off) ==
    CASE tenths = 1 -> 5
      [] tenths = 2 -> 10
      [] tenths \in {3, 4} -> 20
      [] tenths = 5 -> IF off < 0 THEN 20 ELSE 40
      [] tenths \in 6..9 -> 40
      [] tenths = 10 -> IF off < 0 THEN 40 ELSE 80

\* round to nearest, ties to even: the double nearest to tenths / 10 + off units + a
\* remainder smaller than a unit whose sign is bias.  tenths / 10 is 2^55 * tenths units, so
\* m units from it there is a double iff 2^55 * tenths + m is a multiple of the spacing
RoundToDouble(tenths, off, bias) ==
    IF tenths = 0 THEN DoubleZero
    ELSE LET spacing == DoubleSpacing(tenths, off)
             grid == {m \in (off - spacing)..(off + spacing) :
                         /\ (3 * tenths + m) % 5 = 0
                         /\ m % (spacing \div 5) = 0}
             distance(m) == 2 * Abs(m - off)
                              + (IF m > off THEN -bias ELSE IF m < off THEN bias ELSE 0)
             nearest == {m \in grid : \A other \in grid : distance(m) <= distance(other)}
             even == {m \in nearest : (m \div (spacing \div 5)) % 2 = 0}
         IN [tenths |-> tenths,
             off |-> IF Cardinality(nearest) = 1 THEN CHOOSE m \in nearest : TRUE
                     ELSE CHOOSE m \in even : TRUE]

\* the numeric literal 0.w
DoubleOfTenths(w) == RoundToDouble(w, 0, 0)

\* a + b
DoubleAdd(a, b) == RoundToDouble(a.tenths + b.tenths, a.off + b.off, 0)

\* a / b for a divisor within a few units of 1: a / (1 + t) = a - a * t + a * t * t - ...
DoubleDivide(a, b) ==
    LET first == a.off - (a.tenths * b.off) \div 10
        bias == IF b.off = 0 \/ first = 0 THEN 0
                ELSE IF (b.off > 0) = (first > 0) THEN -1 ELSE 1
    IN RoundToDouble(a.tenths, first, bias)

DoubleLess(a, b) ==
    \/ a.tenths < b.tenths
    \/ a.tenths = b.tenths /\ a.off < b.off

\* chillScore, grooveScore and clubScore after the four 'score += weight' statements, then
\* totalScore, probabilities, bestIdx (indexOf the maximum) and confidence
ruleBasedDoubles(f) ==
    LET awards == featureAwards(f)
        added(score, w) == IF w = 0 THEN score ELSE DoubleAdd(score, DoubleOfTenths(w))
        scores == [i \in 1..3 |->
                      added(added(added(added(DoubleZero, awards[1][i]), awards[2][i]),
                                  awards[3][i]), awards[4][i])]
        totalScore == DoubleAdd(DoubleAdd(scores[1], scores[2]), scores[3])
        probabilities == [i \in 1..3 |-> DoubleDivide(scores[i], totalScore)]
        bestIdx == CHOOSE i \in 1..3 :
                       /\ \A j \in 1..3 : ~DoubleLess(probabilities[i], probabilities[j])
                       /\ \A j \in 1..(i - 1) : DoubleLess(probabilities[j], probabilities[i])
    IN [scores |-> scores, totalScore |-> totalScore, probabilities |-> probabilities,
        class_id |-> bestIdx - 1, confidence |-> probabilities[bestIdx]]

\* the default analysis of the guarded variant's catch block
fallbackAnalysis ==
    [energy_level |-> "Groove",
     confidence |-> [num |-> 1, den |-> 2],
     class_id |-> 1,
     probabilities |-> <<[num |-> 33, den |-> 100], [num |-> 34, den |-> 100],
                         [num |-> 33, den |-> 100]>>]

\* Math.sqrt(sum / length) over some samples, in tenths
RmsTenths(samples) ==
    Isqrt((100 * WindowSum(samples, 0, Len(samples)))
          \div (SampleDen * SampleDen * Len(samples)))

calculateZeroCrossingRate(channelData) ==
    LET crossings == {i \in 2..Len(channelData) :
                         \/ channelData[i] >= 0 /\ channelData[i - 1] < 0
                         \/ channelData[i] < 0 /\ channelData[i - 1] >= 0}
    IN (100 * Cardinality(crossings)) \div Len(channelData)

calculatePeakAmplitude(channelData) ==
    IF channelData = <<>> THEN 0
    ELSE CHOOSE m \in {Abs(channelData[i]) : i \in DOMAIN channelData} :
             \A i \in DOMAIN channelData : Abs(channelData[i]) <= m

\* the window energies of estimateTempo and calculateBeatStrength: 100 ms windows, hop a
\* quarter of a window (the radicands, which order as their roots do)
featureWindows(channelData, sampleRate) ==
    LET ws == FloorPct(sampleRate, 10)
        hop == ws \div 4
        n == NumWindows(Len(channelData), ws, hop)
    IN [k \in 1..n |-> WindowSum(channelData, (k - 1) * hop, ws)]

\* findPeaks: the 0-based indices strictly above both neighbours
findPeaks(array) ==
    {i \in 1..(Len(array) - 2) : array[i + 1] > array[i] /\ array[i + 1] > array[i + 2]}

DefaultTempo == 120
MinTempo == 60
MaxTempo == 180

SetMax(S) == CHOOSE m \in S : \A x \in S : x <= m
SetMin(S) == CHOOSE m \in S : \A x \in S : m <= x

estimateTempo(channelData, sampleRate) ==
    LET hop == FloorPct(sampleRate, 10) \div 4
        peaks == findPeaks(featureWindows(channelData, sampleRate))
    IN IF Cardinality(peaks) < 2 THEN DefaultTempo
       ELSE Max(MinTempo, Min(MaxTempo,
                (60 * sampleRate * (Cardinality(peaks) - 1))
                \div ((SetMax(peaks) - SetMin(peaks)) * hop)))

calculateBeatStrength(channelData, sampleRate) ==
    LET ws == FloorPct(sampleRate, 10)
        windows == featureWindows(channelData, sampleRate)
        roots == [k \in DOMAIN windows |->
                     Isqrt((10000 * windows[k]) \div (SampleDen * SampleDen * ws))]
    IN IF windows = <<>> THEN 0 ELSE SumSeq(roots) \div (10 * Len(windows))

\* computeFFT reads an AnalyserNode that has processed no audio, whose magnitudes are all 0
\* (-Infinity dB), so the centroid has no frame with magnitudeSum > 0
calculateSpectralCentroid(channelData, sampleRate) == 0

extractFeatures(audioBuffer) ==
    LET channelData == audioBuffer.channelData[1]
    IN [rms |-> RmsTenths(channelData),
        spectralCentroid |-> calculateSpectralCentroid(channelData, audioBuffer.sampleRate),
        zcr |-> calculateZeroCrossingRate(channelData),
        tempo |-> estimateTempo(channelData, audioBuffer.sampleRate),
        peakAmplitude |-> calculatePeakAmplitude(channelData),
        beatStrength |-> calculateBeatStrength(channelData, audioBuffer.sampleRate)]

Fulfilled(analysis) == [kind |-> "fulfilled", analysis |-> analysis]
\* an exception inside the async function rejects the promise it returned
RejectedPromise == [kind |-> "rejected"]

\* canonical variant: no guard; getChannelData(0) throws on zero channels, and
\* createBuffer(1, 0, ...) in computeFFT throws on an empty channel
analyzeEnergyCanonical(audioBuffer) ==
    IF audioBuffer.numberOfChannels = 0 THEN RejectedPromise
    ELSE IF audioBuffer.length = 0 THEN RejectedPromise
    ELSE Fulfilled(predictEnergyLevel(extractFeatures(audioBuffer)))

SampleCap == 10000

\* guarded variant: the samples the loop visits, every step-th one up to sampleSize of them
sampledData(data) ==
    LET sampleSize == Min(SampleCap, Len(data))
        step == Max(1, Len(data) \div sampleSize)
        count == Min(sampleSize, ((Len(data) - 1) \div step) + 1)
    IN [k \in 1..count |-> data[(k - 1) * step + 1]]

guardedFeatures(audioBuffer) ==
    LET sampled == sampledData(audioBuffer.channelData[1])
        rms == RmsTenths(sampled)
        peakAmp == calculatePeakAmplitude(sampled)
    IN [rms |-> rms,
        tempo |-> IF rms < 1 THEN 80 ELSE IF rms < 3 THEN 120 ELSE 150,
        peakAmplitude |-> peakAmp,
        brightness |-> (peakAmp * 3000) \div SampleDen + 1000]

\* guarded variant: every throw inside try is caught and answered with the default analysis
analyzeEnergyGuarded(audioBuffer) ==
    IF audioBuffer.length = 0 \/ audioBuffer.numberOfChannels = 0
    THEN Fulfilled(fallbackAnalysis)
    ELSE Fulfilled(classifyWithTrainedModel(guardedFeatures(audioBuffer)))

analyzeEnergy(variant, audioBuffer) ==
    IF variant = "canonical" THEN analyzeEnergyCanonical(audioBuffer)
    ELSE analyzeEnergyGuarded(audioBuffer)

\* sample rates are scaled down to 40, which keeps the hop at one sample or more as every
\* rate of a real AudioBuffer does
EnergyRate == 40
EnergyChannels ==
    {Zeros(8), Flat(8, SampleDen \div 2), Flat(12, SampleDen),
     [i \in 1..12 |-> IF i % 2 = 0 THEN SampleDen ELSE -SampleDen],
     [i \in 1..12 |-> IF i % 2 = 0 THEN SampleDen \div 4 ELSE 0],
     PulseTrain(<<12, 12>>), PulseTrain(<<8, 8, 8>>)}
EnergyBuffers ==
    {[numberOfChannels |-> 1, length |-> Len(d), sampleRate |-> EnergyRate,
      channelData |-> <<d>>] : d \in EnergyChannels}
    \cup {[numberOfChannels |-> 2, length |-> Len(d), sampleRate |-> EnergyRate,
           channelData |-> <<d, Zeros(Len(d))>>] : d \in EnergyChannels}
MalformedBuffers ==
    {[numberOfChannels |-> 0, length |-> 0, sampleRate |-> EnergyRate, channelData |-> <<>>],
     [numberOfChannels |-> 0, length |-> 8, sampleRate |-> EnergyRate, channelData |-> <<>>],
     [numberOfChannels |-> 1, length |-> 0, sampleRate |-> EnergyRate,
      channelData |-> <<Zeros(0)>>]}

CanonicalFeatureVectors ==
    [rms : {0, 3, 10, 20}, spectralCentroid : {0, 10}, zcr : {0, 10},
     tempo : {60, 120, 150, 180}, peakAmplitude : {0, SampleDen},
     beatStrength : {0, 5}]
GuardedFeatureVectors ==
    [rms : {0, 1, 3}, tempo : {80, 120, 150}, peakAmplitude : {0, 1, 2, SampleDen},
     brightness : {1000, 3000, 5200, 9000}]

InitEnergy == NothingInvoked

\* EnergyDetector.analyzeEnergy(audioBuffer), on a decoded buffer or on a malformed one
InvokeAnalyzeEnergy ==
    /\ analyses = <<>>
    /\ \E variant \in EnergyVariants, audioBuffer \in EnergyBuffers \cup MalformedBuffers :
          analyses' = <<[op |-> "analyzeEnergy", variant |-> variant,
                         audioBuffer |-> audioBuffer,
                         outcome |-> analyzeEnergy(variant, audioBuffer)]>>

\* the canonical classifier on a feature vector
InvokePredictEnergyLevel ==
    /\ analyses = <<>>
    /\ \E features \in CanonicalFeatureVectors :
          analyses' = <<[op |-> "classify", variant |-> "canonical", features |-> features,
                         outcome |-> Fulfilled(predictEnergyLevel(features))]>>

\* the guarded variant's classifier on a feature vector
InvokeClassifyWithTrainedModel ==
    /\ analyses = <<>>
    /\ \E features \in GuardedFeatureVectors :
          analyses' = <<[op |-> "classify", variant |-> "guarded", features |-> features,
                         outcome |-> Fulfilled(classifyWithTrainedModel(features)),
                         doubles |-> ruleBasedDoubles(features)]>>

NextEnergy ==
    /\ \/ InvokeAnalyzeEnergy
       \/ InvokePredictEnergyLevel
       \/ InvokeClassifyWithTrainedModel
    /\ UNCHANGED <<calls, runs, selections, encodings, mixes, page>>

SpecEnergy == InitEnergy /\ [][NextEnergy]_vars

(***************************************************************************)
(* Energy classifier: properties                                           *)
(***************************************************************************)

IsMalformed(audioBuffer) == audioBuffer.length = 0 \/ audioBuffer.numberOfChannels = 0

\* the probabilities are finite, share a denominator and add up to exactly 1
SumsToOne(probabilities) ==
    /\ \A i \in DOMAIN probabilities : probabilities[i].den # 0
    /\ \A i, j \in DOMAIN probabilities : probabilities[i].den = probabilities[j].den
    /\ SumSeq([i \in DOMAIN probabilities |-> probabilities[i].num]) = probabilities[1].den

\* value is the largest of the probabilities (which share a denominator)
IsMaxProbability(value, probabilities) ==
    /\ \A i \in DOMAIN probabilities : probabilities[i].den # 0
    /\ value.den # 0
    /\ \E i \in DOMAIN probabilities :
          /\ Reduced(value) = Reduced(probabilities[i])
          /\ \A j \in DOMAIN probabilities :
                IF probabilities[i].den > 0 THEN probabilities[j].num <= probabilities[i].num
                ELSE probabilities[j].num >= probabilities[i].num

\* C6: on a buffer that is empty or has no channels analyzeEnergy does not throw or reject:
\* it returns the fallback analysis, the middle category with confidence 0.5.
C6_AnalyzeEnergyNeverRaises ==
    \A k \in DOMAIN analyses :
        (analyses[k].op = "analyzeEnergy" /\ IsMalformed(analyses[k].audioBuffer))
            => /\ analyses[k].outcome.kind = "fulfilled"
               /\ analyses[k].outcome.analysis.energy_level = "Groove"
               /\ Reduced(analyses[k].outcome.analysis.confidence) = [num |-> 1, den |-> 2]

\* the guarded variant alone answers every malformed buffer with the fallback
GuardedAnalyzeEnergyFallsBack ==
    \A k \in DOMAIN analyses :
        (analyses[k].op = "analyzeEnergy" /\ analyses[k].variant = "guarded"
         /\ IsMalformed(analyses[k].audioBuffer))
            => analyses[k].outcome = Fulfilled(fallbackAnalysis)

\* C7: for every finite feature vector the probabilities returned by the classifier add up
\* to 1.
C7_ProbabilitiesSumToOne ==
    \A k \in DOMAIN analyses :
        analyses[k].op = "classify"
            => SumsToOne(analyses[k].outcome.analysis.probabilities)

\* the guarded variant's classifier always normalizes, and so does the canonical one on
\* every vector extractFeatures produced from a well-formed buffer
ProbabilitiesSumToOneWhereTotalIsPositive ==
    \A k \in DOMAIN analyses :
        \/ analyses[k].op = "classify" /\ analyses[k].variant = "canonical"
        \/ analyses[k].outcome.kind = "rejected"
        \/ SumsToOne(analyses[k].outcome.analysis.probabilities)

\* C8: for every finite feature vector the confidence returned by the classifier is the
\* largest value of the returned probabilities, the normalized score of the winner.
C8_ConfidenceIsMaxProbability ==
    \A k \in DOMAIN analyses :
        analyses[k].op = "classify"
            => IsMaxProbability(analyses[k].outcome.analysis.confidence,
                                analyses[k].outcome.analysis.probabilities)

\* the guarded variant's classifier does return the largest probability as confidence
GuardedConfidenceIsMaxProbability ==
    \A k \in DOMAIN analyses :
        (analyses[k].op = "classify" /\ analyses[k].variant = "guarded")
            => IsMaxProbability(analyses[k].outcome.analysis.confidence,
                                analyses[k].outcome.analysis.probabilities)

\* a canonical classification whose scores add up to 0
ZeroTotalReached ==
    \E k \in DOMAIN analyses :
        /\ analyses[k].op = "classify" /\ analyses[k].variant = "canonical"
        /\ analyses[k].features.tempo <= 180
        /\ analyses[k].outcome.analysis.probabilities[1].den = 0

(***************************************************************************)
(* Crossfader: properties of the samples                                   *)
(***************************************************************************)

\* the same buffer with every sample 0
Silent(buffer) ==
    [buffer EXCEPT !.channelData =
        [c \in 1..buffer.numberOfChannels |-> Zeros(buffer.length)]]

\* C11: at every output index i where mixPointSample + i lies beyond a track's channel
\* length, that track contributes exactly 0 to the output (the output is what it would be had
\* the track been silent, and 0 when both tracks are beyond their end); createMix completes
\* with a full buffer for these inputs.
C11_BeyondEndContributesZero ==
    \A k \in DOMAIN mixes :
        LET mix == mixes[k]
            start1 == startSampleOf(mix.mixPoint1, mix.buffer1, mix.buffer1)
            start2 == startSampleOf(mix.mixPoint2, mix.buffer2, mix.buffer1)
            withoutA == createMix(mix.variant, Silent(mix.buffer1), mix.buffer2,
                                  mix.mixPoint1, mix.mixPoint2)
            withoutB == createMix(mix.variant, mix.buffer1, Silent(mix.buffer2),
                                  mix.mixPoint1, mix.mixPoint2)
        IN \A c \in DOMAIN mix.result.channelData :
               /\ Len(mix.result.channelData[c]) = mix.result.length
               /\ \A i \in 0..(mix.result.length - 1) :
                     /\ start1 + i >= mix.buffer1.length
                            => mix.result.channelData[c][i + 1] = withoutA.channelData[c][i + 1]
                     /\ start2 + i >= mix.buffer2.length
                            => mix.result.channelData[c][i + 1] = withoutB.channelData[c][i + 1]
                     /\ (start1 + i >= mix.buffer1.length /\ start2 + i >= mix.buffer2.length)
                            => mix.result.channelData[c][i + 1] = 0

\* track A, whose last sample is not 0, ends inside the mix while track B still plays
C11_Witness ==
    \E k \in DOMAIN mixes :
        LET mix == mixes[k]
            start1 == startSampleOf(mix.mixPoint1, mix.buffer1, mix.buffer1)
            start2 == startSampleOf(mix.mixPoint2, mix.buffer2, mix.buffer1)
        IN /\ start1 < mix.buffer1.length
           /\ mix.buffer1.channelData[1][mix.buffer1.length] # 0
           /\ \E i \in 1..(mix.result.length - 1) :
                 /\ start1 + i >= mix.buffer1.length
                 /\ start2 + i < mix.buffer2.length
                 /\ mix.result.channelData[1][i + 1] # 0

(***************************************************************************)
(* Container encoder: properties of the samples                            *)
(***************************************************************************)

\* the signed 16-bit value stored little-endian at offset
ReadInt16LE(bytes, offset) ==
    LET u == ReadUint16LE(bytes, offset) IN IF u >= 32768 THEN u - 65536 ELSE u

\* the byte offset of frame i (from 1) of channel c (from 1)
SampleOffset(buffer, i, c) == 44 + ((i - 1) * buffer.numberOfChannels + (c - 1)) * 2

\* C12: for every sample s of the buffer, the 16-bit value audioBufferToWav writes is
\* round(clamp(s, -1, 1) * 32767), the nearest integer, and lies in [-32767, 32767].
C12_WavSampleIsRounded ==
    \A k \in DOMAIN encodings :
        LET buffer == encodings[k].buffer
            bytes == encodings[k].bytes
        IN \A i \in 1..buffer.length, c \in 1..buffer.numberOfChannels :
               LET written == ReadInt16LE(bytes, SampleOffset(buffer, i, c))
                   s == buffer.channelData[c][i]
               IN /\ written = RoundDiv(ClampUnit(s) * PcmFull, SampleDen)
                  /\ written \in (-PcmFull)..PcmFull

\* what the encoder does write: clamp(s, -1, 1) * 32767 with its fraction dropped, which is
\* within [-32767, 32767]
WavSampleIsTruncated ==
    \A k \in DOMAIN encodings :
        LET buffer == encodings[k].buffer
            bytes == encodings[k].bytes
        IN \A i \in 1..buffer.length, c \in 1..buffer.numberOfChannels :
               LET written == ReadInt16LE(bytes, SampleOffset(buffer, i, c))
                   s == buffer.channelData[c][i]
               IN /\ written = TruncDiv(ClampUnit(s) * PcmFull, SampleDen)
                  /\ written \in (-PcmFull)..PcmFull

\* a sample below -1 was encoded, as -32767
ClampedSamplesEncoded ==
    \E k \in DOMAIN encodings :
        LET buffer == encodings[k].buffer
            bytes == encodings[k].bytes
        IN \E i \in 1..buffer.length, c \in 1..buffer.numberOfChannels :
               /\ buffer.channelData[c][i] < -SampleDen
               /\ ReadInt16LE(bytes, SampleOffset(buffer, i, c)) = -PcmFull

(***************************************************************************)
(* Mix-point selector: properties of the chosen pair                       *)
(***************************************************************************)

\* the score 1.0 of a candidate of this track and window, in the unit scores are kept in
ScoreOne(buffer, startPct, endPct) == EnergyScale * 2 * (endPct - startPct) * buffer.length

\* C13: if a track has no candidate in its window, the point findMixPoints returns for that
\* track is the default: time 70% of the duration for track A (30% for track B), energy 0.5
\* and score 0.5.
C13_EmptyCandidatesGiveDefault ==
    \A k \in DOMAIN selections :
        LET sel == selections[k]
        IN /\ findCandidates(sel.beatInfo1, sel.buffer1, StartPct1, EndPct1) = <<>>
                => /\ 10 * sel.result.point1.time = 7 * PctDen * sel.buffer1.length
                   /\ 2 * sel.result.point1.energy = EnergyScale
                   /\ 2 * sel.result.point1.score = ScoreOne(sel.buffer1, StartPct1, EndPct1)
           /\ findCandidates(sel.beatInfo2, sel.buffer2, StartPct2, EndPct2) = <<>>
                => /\ 10 * sel.result.point2.time = 3 * PctDen * sel.buffer2.length
                   /\ 2 * sel.result.point2.energy = EnergyScale
                   /\ 2 * sel.result.point2.score = ScoreOne(sel.buffer2, StartPct2, EndPct2)

\* track B has beats but no candidate and gets its default, next to a candidate of track A
C13_Witness ==
    \E k \in DOMAIN selections :
        LET sel == selections[k]
        IN /\ sel.beatInfo2.beats # <<>>
           /\ findCandidates(sel.beatInfo2, sel.buffer2, StartPct2, EndPct2) = <<>>
           /\ findCandidates(sel.beatInfo1, sel.buffer1, StartPct1, EndPct1) # <<>>
           /\ sel.result.point2.time = 6 * sel.buffer2.length
           /\ 2 * sel.result.point2.energy = EnergyScale
           /\ sel.result.point1 = findCandidates(sel.beatInfo1, sel.buffer1,
                                                 StartPct1, EndPct1)[1]

\* C14: for a mono input buffer the buffers extractVocals and extractBeats return are the input
\* itself: same samples, same length, same sample rate (and the same single channel).
C14_MonoStemsAreTheInput ==
    \A k \in DOMAIN mixes :
        LET mix == mixes[k]
            same(stem, buffer) ==
                /\ stem.channelData = buffer.channelData
                /\ stem.length = buffer.length
                /\ stem.sampleRate = buffer.sampleRate
                /\ stem = buffer
        IN mix.variant = "stem" =>
              /\ mix.buffer1.numberOfChannels = 1
                    => same(mix.stems.vocals1, mix.buffer1) /\ same(mix.stems.beats1, mix.buffer1)
              /\ mix.buffer2.numberOfChannels = 1
                    => same(mix.stems.vocals2, mix.buffer2) /\ same(mix.stems.beats2, mix.buffer2)

\* a stem mix of a mono track A that is not silent with a stereo track B: A's stems are A, B's
\* stems are new buffers, and the first output sample is A's sample taken twice, times 0.8
C14_Witness ==
    \E k \in DOMAIN mixes :
        LET mix == mixes[k]
            start1 == startSampleOf(mix.mixPoint1, mix.buffer1, mix.buffer1)
        IN /\ mix.variant = "stem"
           /\ mix.buffer1.numberOfChannels = 1
           /\ mix.buffer2.numberOfChannels = 2
           /\ mix.stems.vocals1 = mix.buffer1
           /\ mix.stems.beats1 = mix.buffer1
           /\ mix.stems.vocals2 # mix.buffer2
           /\ mix.stems.beats2 # mix.buffer2
           /\ mix.buffer1.channelData[1][start1 + 1] # 0
           /\ 5 * mix.result.channelData[1][1]
                  = 8 * mix.result.den * mix.buffer1.channelData[1][start1 + 1]

(***************************************************************************)
(* Beat detector: properties of the beats list                             *)
(***************************************************************************)

\* the 0-based indices of the windows that pass the peak test of the scan loop
PeakWindows(call) ==
    LET energies == energyCurve(call.channelData, call.sampleRate)
    IN {i \in ScanIndices(energies) : IsPeak(energies, calculateThreshold(energies), i)}

\* C15: the beats list findBeats returns is strictly increasing, and every two consecutive
\* beats are more than floor(sampleRate * 0.35) samples apart.
C15_BeatsIncreasingAndSpaced ==
    \A k \in DOMAIN calls :
        Returned(calls[k]) =>
            LET beats == calls[k].result.beats
            IN \A j \in 1..(Len(beats) - 1) :
                   /\ beats[j] < beats[j + 1]
                   /\ beats[j + 1] - beats[j] > (35 * calls[k].sampleRate) \div 100

\* findBeats returned several beats and left out a peak that came too soon after a beat
C15_Witness ==
    \E k \in DOMAIN calls :
        /\ Returned(calls[k])
        /\ Len(calls[k].result.beats) >= 2
        /\ \E i \in PeakWindows(calls[k]) :
              /\ i * hopSizeOf(calls[k].sampleRate) \notin Range(calls[k].result.beats)
              /\ \E j \in DOMAIN calls[k].result.beats :
                    /\ calls[k].result.beats[j] < i * hopSizeOf(calls[k].sampleRate)
                    /\ i * hopSizeOf(calls[k].sampleRate) - calls[k].result.beats[j]
                           <= (35 * calls[k].sampleRate) \div 100

\* C16: every beat findBeats returns is the start sample (window index * hop size) of a window
\* the scan loop visits whose energy exceeds the threshold and is strictly greater than the
\* energies of its two neighbours on each side; no other window becomes a beat.
C16_BeatsAreStrictPeaks ==
    \A k \in DOMAIN calls :
        Returned(calls[k]) =>
            LET energies == energyCurve(calls[k].channelData, calls[k].sampleRate)
                threshold == calculateThreshold(energies)
                hopSize == (((4 * calls[k].sampleRate) \div 100) \div 4)
                qualifies(i) ==
                    /\ 2 <= i /\ i < Len(energies) - 2
                    /\ ExceedsThreshold(energies[i + 1], threshold)
                    /\ \A d \in {-2, -1, 1, 2} : energies[i + 1] > energies[i + 1 + d]
            IN \A j \in DOMAIN calls[k].result.beats :
                   \E i \in 0..(Len(energies) - 1) :
                       /\ calls[k].result.beats[j] = i * hopSize
                       /\ qualifies(i)

\* findBeats returned a beat from a curve that also has a window above the threshold whose
\* energy equals its right neighbour's, and that window is not a beat
C16_Witness ==
    \E k \in DOMAIN calls :
        LET energies == energyCurve(calls[k].channelData, calls[k].sampleRate)
            threshold == calculateThreshold(energies)
            hopSize == hopSizeOf(calls[k].sampleRate)
        IN /\ Returned(calls[k])
           /\ calls[k].result.beats # <<>>
           /\ \E i \in ScanIndices(energies) :
                 /\ ExceedsThreshold(energies[i + 1], threshold)
                 /\ energies[i + 1] = energies[i + 2]
                 /\ i * hopSize \notin Range(calls[k].result.beats)

GainOne(mixSamples) == 20 * mixSamples

\* gain w at output index i lies on the line from y0 tenths at progress a / 5 to y1 tenths at
\* progress b / 5
OnLine(w, i, mixSamples, a, y0, b, y1) ==
    10 * (b - a) * w = 20 * (y0 * (b * mixSamples - 5 * i) + y1 * (5 * i - a * mixSamples))

\* C18: in the stem variant the beat gains follow the three-segment schedule at every output
\* index: progress < 0.4 gives track A 1 and track B 0; from 0.4 to 0.6 A goes linearly from 1
\* to 0.7 and B from 0 to 0.7; from 0.6 on A goes linearly from 0.7 to 0 and B from 0.7 to 1;
\* A's gain never increases and B's never decreases with the index, and neither jumps at 0.4
\* or 0.6 (the segments meet there, and one index changes a gain by at most its slope).
C18_BeatGainsThreeSegments ==
    \A k \in DOMAIN mixes :
        mixes[k].variant = "stem" =>
            LET M == mixes[k].result.length
                out(i) == beatFadeOut(i, M)
                in(i) == beatFadeIn(i, M)
            IN /\ \A i \in 0..(M - 1) :
                      /\ 5 * i < 2 * M => (out(i) = GainOne(M) /\ in(i) = 0)
                      /\ (2 * M <= 5 * i /\ 5 * i <= 3 * M)
                            => /\ OnLine(out(i), i, M, 2, 10, 3, 7)
                               /\ OnLine(in(i), i, M, 2, 0, 3, 7)
                      /\ 3 * M <= 5 * i
                            => /\ OnLine(out(i), i, M, 3, 7, 5, 0)
                               /\ OnLine(in(i), i, M, 3, 7, 5, 10)
                      /\ 5 * i = 2 * M => (out(i) = GainOne(M) /\ in(i) = 0)
                      /\ 5 * i = 3 * M => (10 * out(i) = 7 * GainOne(M)
                                           /\ 10 * in(i) = 7 * GainOne(M))
               /\ \A i \in 0..(M - 2) :
                      /\ out(i + 1) <= out(i)
                      /\ in(i + 1) >= in(i)
                      /\ 4 * M * (out(i) - out(i + 1)) <= 7 * GainOne(M)
                      /\ 2 * M * (in(i + 1) - in(i)) <= 7 * GainOne(M)

\* a stem mix of a mono track A alone (track B has ended) whose indices hit 0.4 and 0.6
\* exactly: in the second half, where A's vocal gain is 0, the output is A's sample times A's
\* beat gain times 0.8, with the gain strictly between 0 and 1
C18_Witness ==
    \E k \in DOMAIN mixes :
        LET mix == mixes[k]
            M == mix.result.length
            start1 == startSampleOf(mix.mixPoint1, mix.buffer1, mix.buffer1)
            start2 == startSampleOf(mix.mixPoint2, mix.buffer2, mix.buffer1)
        IN /\ mix.variant = "stem"
           /\ mix.buffer1.numberOfChannels = 1
           /\ M % 5 = 0
           /\ \E i \in 0..(M - 1) :
                 /\ 5 * i > 3 * M
                 /\ start1 + i < mix.buffer1.length
                 /\ start2 + i >= mix.buffer2.length
                 /\ mix.buffer1.channelData[1][start1 + i + 1] # 0
                 /\ beatFadeOut(i, M) \in 1..(GainOne(M) - 1)
                 /\ mix.result.channelData[1][i + 1]
                        = 4 * 5 * mix.buffer1.channelData[1][start1 + i + 1] * beatFadeOut(i, M)

\* C19: in the stem variant track A's vocal gain is 0 at every output index with progress >= 0.5
\* and track B's vocal gain is 0 at every index with progress <= 0.5, so the two are never both
\* non-zero; both gains are within [0, 1].
C19_VocalGainsNeverOverlap ==
    \A k \in DOMAIN mixes :
        mixes[k].variant = "stem" =>
            LET M == mixes[k].result.length
            IN \A i \in 0..(M - 1) :
                   /\ 2 * i >= M => vocalFadeOut(i, M) = 0
                   /\ 2 * i <= M => vocalFadeIn(i, M) = 0
                   /\ vocalFadeOut(i, M) = 0 \/ vocalFadeIn(i, M) = 0
                   /\ vocalFadeOut(i, M) \in 0..GainOne(M)
                   /\ vocalFadeIn(i, M) \in 0..GainOne(M)

\* a stem mix of two mono tracks that are both playing: at the midpoint the output holds the
\* beats only, before it track A's vocals and not B's, after it track B's vocals and not A's
C19_Witness ==
    \E k \in DOMAIN mixes :
        LET mix == mixes[k]
            M == mix.result.length
            start1 == startSampleOf(mix.mixPoint1, mix.buffer1, mix.buffer1)
            start2 == startSampleOf(mix.mixPoint2, mix.buffer2, mix.buffer1)
            a(i) == 5 * mix.buffer1.channelData[1][start1 + i + 1]
            b(i) == 5 * mix.buffer2.channelData[1][start2 + i + 1]
            output(i) == mix.result.channelData[1][i + 1]
        IN /\ mix.variant = "stem"
           /\ mix.buffer1.numberOfChannels = 1 /\ mix.buffer2.numberOfChannels = 1
           /\ M % 2 = 0
           /\ start1 + M <= mix.buffer1.length /\ start2 + M <= mix.buffer2.length
           /\ vocalFadeOut(1, M) > 0 /\ vocalFadeIn(M - 1, M) > 0
           /\ output(M \div 2) = 4 * (a(M \div 2) * beatFadeOut(M \div 2, M)
                                      + b(M \div 2) * beatFadeIn(M \div 2, M))
           /\ output(1) = 4 * (a(1) * (vocalFadeOut(1, M) + beatFadeOut(1, M))
                               + b(1) * beatFadeIn(1, M))
           /\ output(M - 1) = 4 * (a(M - 1) * beatFadeOut(M - 1, M)
                                   + b(M - 1) * (vocalFadeIn(M - 1, M) + beatFadeIn(M - 1, M)))

\* C20: in the basic variant, at every output index i with progress = i / mixSamples the
\* weights are weightA = 1 - progress and weightB = progress (they sum to 1, weightA is 1 at
\* i = 0 and decreases with i), and the output sample is
\* (sampleA * weightA + sampleB * weightB) * 0.8, a track's sample being 0 beyond its end.
C20_BasicLinearCrossfade ==
    \A k \in DOMAIN mixes :
        mixes[k].variant = "basic" =>
            LET mix == mixes[k]
                M == mix.result.length
                start1 == startSampleOf(mix.mixPoint1, mix.buffer1, mix.buffer1)
                start2 == startSampleOf(mix.mixPoint2, mix.buffer2, mix.buffer1)
                \* the weights, times M
                weightA(i) == M - i
                weightB(i) == i
                sample(buffer, c, index) ==
                    IF index < buffer.length
                    THEN buffer.channelData[Min(c, buffer.numberOfChannels)][index + 1]
                    ELSE 0
            IN /\ weightA(0) = M
               /\ \A i \in 0..(M - 1) : weightA(i) + weightB(i) = M
               /\ \A i \in 0..(M - 2) : weightA(i + 1) < weightA(i)
               /\ \A c \in DOMAIN mix.result.channelData, i \in 0..(M - 1) :
                      10 * M * mix.result.channelData[c][i + 1]
                          = 8 * mix.result.den * (sample(mix.buffer1, c, start1 + i) * weightA(i)
                                                  + sample(mix.buffer2, c, start2 + i) * weightB(i))

\* a basic mix of two playing tracks: the first output sample is track A's times 0.8, and a
\* later one blends two samples that differ, neither of them 0
C20_Witness ==
    \E k \in DOMAIN mixes :
        LET mix == mixes[k]
            M == mix.result.length
            start1 == startSampleOf(mix.mixPoint1, mix.buffer1, mix.buffer1)
            start2 == startSampleOf(mix.mixPoint2, mix.buffer2, mix.buffer1)
        IN /\ mix.variant = "basic"
           /\ start1 + M <= mix.buffer1.length /\ start2 + M <= mix.buffer2.length
           /\ mix.buffer1.channelData[1][start1 + 1] # 0
           /\ 5 * mix.result.channelData[1][1]
                  = 4 * mix.result.den * mix.buffer1.channelData[1][start1 + 1]
           /\ \E i \in 1..(M - 1) :
                 /\ mix.buffer1.channelData[1][start1 + i + 1] # 0
                 /\ mix.buffer2.channelData[1][start2 + i + 1] # 0
                 /\ mix.buffer1.channelData[1][start1 + i + 1]
                        # mix.buffer2.channelData[1][start2 + i + 1]
                 /\ mix.result.channelData[1][i + 1] # 0

(***************************************************************************)
(* Beat detector: properties of the threshold                              *)
(***************************************************************************)

\* m is the radicand of the median of the curve's energies (the energies are the square roots
\* of the curve's entries over the window size): the middle one of an odd number, and for an
\* even number the mean of the two middle ones, 2 * sqrt(m) = sqrt(lower) + sqrt(upper)
IsMedianOf(m, energies) ==
    LET n == Len(energies)
        upper == SortedAt(energies, n \div 2)
        lower == SortedAt(energies, n \div 2 - 1)
    IN IF n % 2 = 1 THEN m = upper
       ELSE /\ 4 * m >= lower + upper
            /\ (4 * m - lower - upper) * (4 * m - lower - upper) = 4 * lower * upper

\* C21: the threshold calculateThreshold computes is 1.5 times the median of the energy curve,
\* for curves of odd and of even length.
C21_ThresholdIsMedianTimesOneAndAHalf ==
    \A k \in DOMAIN calls :
        LET energies == energyCurve(calls[k].channelData, calls[k].sampleRate)
            threshold == calculateThreshold(energies)
        IN energies # <<>> => (~threshold.isNaN /\ IsMedianOf(threshold.median, energies))

\* what the code computes: 1.5 times the element at index floor(n / 2) of the sorted curve,
\* which is the median for an odd length and the upper of the two middle elements for an even
\* length
ThresholdIsUpperMiddleTimesOneAndAHalf ==
    \A k \in DOMAIN calls :
        LET energies == energyCurve(calls[k].channelData, calls[k].sampleRate)
            threshold == calculateThreshold(energies)
            n == Len(energies)
        IN energies # <<>> =>
              /\ ~threshold.isNaN
              /\ threshold.median \in Range(energies)
              /\ Cardinality({i \in DOMAIN energies : energies[i] < threshold.median}) <= n \div 2
              /\ Cardinality({i \in DOMAIN energies : energies[i] > threshold.median})
                     <= (n - 1) \div 2
              /\ n % 2 = 1 => IsMedianOf(threshold.median, energies)

\* thresholds were computed for a curve of odd length and for curves of even length, one of
\* them with two different middle elements
OddAndEvenCurvesReached ==
    \E j, k \in DOMAIN calls :
        LET ej == energyCurve(calls[j].channelData, calls[j].sampleRate)
            ek == energyCurve(calls[k].channelData, calls[k].sampleRate)
        IN /\ Len(ej) % 2 = 1 /\ ~IsFlat(ej)
           /\ Len(ek) % 2 = 0 /\ Len(ek) > 0
           /\ SortedAt(ek, Len(ek) \div 2) # SortedAt(ek, Len(ek) \div 2 - 1)

(***************************************************************************)
(* Page component: Home in page.tsx ("basic") and its variant with the     *)
(* energy analysis ("energy")                                              *)
(*                                                                         *)
(* page holds the React state of the mounted component, the position of    *)
(* every processTransition run started so far (a run keeps the files it    *)
(* was started with) and the pending 5-second timers.  A file is a number  *)
(* of PageFiles, 0 is null; transitionUrl and error are <<>> when null.    *)
(* A step is one task of the event loop: an event handler, or the          *)
(* continuation of a run after one of its awaits.                          *)
(***************************************************************************)

PageVariants == {"basic", "energy"}
PageFiles == {1, 2}
MaxPageRuns == 2

\* the useState initial values
InitialPage(variant) ==
    [variant |-> variant, song1 |-> 0, song2 |-> 0, isProcessing |-> FALSE, progress |-> 0,
     stage |-> "idle", transitionUrl |-> <<>>, error |-> <<>>,
     bpm |-> FALSE, energyAnalysis |-> FALSE, isAnalyzingEnergy |-> FALSE,
     runs |-> <<>>, timers |-> {}]

\* (a callback that shows 'complete' from 0.9 on)
StageForEarlyComplete(value) ==
    IF 10 * value <= 3 * ProgressScale THEN "loading"
    ELSE IF 10 * value <= 7 * ProgressScale THEN "analyzing"
    ELSE IF 10 * value < 9 * ProgressScale THEN "creating"
    ELSE "complete"
\* the stage the progress callback sets for a reported value
StageFor(value) ==
    IF 10 * value <= 3 * ProgressScale THEN "loading"
    ELSE IF 10 * value <= 7 * ProgressScale THEN "analyzing"
    ELSE IF value < ProgressScale THEN "creating"
    ELSE "complete"

\* the callback given to new AudioProcessor(...): setProgress(Math.round(progress * 100)) and
\* setStage
OnProgress(p, value) ==
    [p EXCEPT !.progress = (100 * value) \div ProgressScale, !.stage = StageFor(value)]

\* the state after createTransition reported the checkpoints of the given stages, in order
RECURSIVE Reported(_, _)
Reported(p, stages) ==
    IF stages = <<>> THEN p
    ELSE Reported(OnProgress(p, Checkpoint(Head(stages))), Tail(stages))

\* catch (err) { setError('Error processing audio. ...') } finally { setIsProcessing(false) }
CatchAndFinally(p, r) ==
    [p EXCEPT !.error = [run |-> r, kind |-> "processing"],
              !.isProcessing = FALSE,
              !.runs[r].pc = "settled"]

InitPage ==
    /\ calls = <<>> /\ runs = <<>> /\ selections = <<>>
    /\ encodings = <<>> /\ mixes = <<>> /\ analyses = <<>>
    /\ page \in {InitialPage(variant) : variant \in PageVariants}

\* handleFileUpload for the first (slot 1) or second (slot 2) file input; the inputs are
\* never disabled
HandleFileUpload(slot, file) ==
    page' = [page EXCEPT !.transitionUrl = <<>>,
                         !.song1 = IF slot = 1 THEN file ELSE @,
                         !.song2 = IF slot = 2 THEN file ELSE @,
                         !.error = <<>>,
                         !.progress = 0,
                         !.stage = "idle",
                         !.bpm = FALSE,
                         !.energyAnalysis = FALSE]

\* a click on the button, which is disabled unless both files are chosen and no run is in
\* progress: processTransition up to await processor.createTransition(song1, song2), whose
\* body runs up to its first await
ProcessTransition ==
    /\ Len(page.runs) < MaxPageRuns
    /\ page.song1 # 0 /\ page.song2 # 0 /\ ~page.isProcessing
    /\ \E toneRunning \in BOOLEAN :
          LET r == Len(page.runs) + 1
              started == [page EXCEPT !.transitionUrl = <<>>,
                                      !.isProcessing = TRUE,
                                      !.error = <<>>,
                                      !.progress = 0,
                                      !.stage = "loading",
                                      !.bpm = FALSE,
                                      !.energyAnalysis = FALSE,
                                      !.runs = Append(@, [song1 |-> page.song1,
                                                          song2 |-> page.song2,
                                                          pc |-> "toneStarting"])]
          IN page' = IF toneRunning
                     THEN [Reported(started, <<"started">>) EXCEPT !.runs[r].pc = "loading"]
                     ELSE started

\* await Tone.start() resolves: 0.1 is reported and the loads begin
PageToneStarted(r) ==
    /\ page.runs[r].pc = "toneStarting"
    /\ page' = [Reported(page, <<"started">>) EXCEPT !.runs[r].pc = "loading"]

\* both loads resolved: 0.3 is reported and the decodes begin
PageLoaded(r) ==
    /\ page.runs[r].pc = "loading"
    /\ page' = [Reported(page, <<"loaded">>) EXCEPT !.runs[r].pc = "decoding"]

\* both decodes resolved: 0.5, the beat analysis, 0.7, the mix points and the body of
\* createMix; either of the two can throw
PageDecoded(r) ==
    /\ page.runs[r].pc = "decoding"
    /\ \E outcome \in {"analysisThrows", "mixThrows", "mixing"} :
          page' = CASE outcome = "analysisThrows" ->
                           CatchAndFinally(Reported(page, <<"decoded">>), r)
                    [] outcome = "mixThrows" ->
                           CatchAndFinally(Reported(page, <<"decoded", "analysed">>), r)
                    [] outcome = "mixing" ->
                           [Reported(page, <<"decoded", "analysed">>)
                               EXCEPT !.runs[r].pc = "mixing"]

\* Tone.start(), a load or a decode rejects: createTransition rejects
PageCreateRejected(r) ==
    /\ page.runs[r].pc \in {"toneStarting", "loading", "decoding"}
    /\ page' = CatchAndFinally(page, r)

\* await createMix resolved, 0.9 is reported and the encoding throws
PageEncodingThrows(r) ==
    /\ page.runs[r].pc = "mixing"
    /\ page' = CatchAndFinally(Reported(page, <<"mixed">>), r)

\* what createTransition resolves with: a Blob, as both AudioProcessor files return, or, for
\* the energy variant of the page, the object { blob, bpm1, bpm2 } that it destructures
ResultShapes == {"Blob", "BlobWithBpm"}

\* await createMix resolved: 0.9, the WAV bytes, 1, and createTransition resolves; the page
\* goes on after its await.  URL.createObjectURL throws a TypeError unless it is given a Blob
PageCreateResolved(r, shape) ==
    /\ page.runs[r].pc = "mixing"
    /\ page.variant = "basic" => shape = "Blob"
    /\ LET done == Reported(page, <<"mixed", "encoded">>)
           url == [song1 |-> page.runs[r].song1, song2 |-> page.runs[r].song2, run |-> r]
       IN page' =
            IF page.variant = "basic"
            THEN IF shape = "Blob"
                 THEN [done EXCEPT !.transitionUrl = url,
                                   !.isProcessing = FALSE,
                                   !.runs[r].pc = "settled"]
                 ELSE CatchAndFinally(done, r)
            ELSE IF shape = "BlobWithBpm"
                 THEN [done EXCEPT !.transitionUrl = url,
                                   !.bpm = TRUE,
                                   !.isAnalyzingEnergy = TRUE,
                                   !.runs[r].pc = "analyzingEnergy"]
                 ELSE CatchAndFinally(done, r)

\* blobToAudioBuffer and EnergyDetector.analyzeEnergy resolved
PageEnergyResolved(r) ==
    /\ page.runs[r].pc = "analyzingEnergy"
    /\ page' = [page EXCEPT !.energyAnalysis = TRUE,
                            !.isAnalyzingEnergy = FALSE,
                            !.isProcessing = FALSE,
                            !.runs[r].pc = "settled"]

\* one of them rejected: the message is shown and setTimeout(() => setError(null), 5000)
PageEnergyRejected(r) ==
    /\ page.runs[r].pc = "analyzingEnergy"
    /\ page' = [page EXCEPT !.error = [run |-> r, kind |-> "energy"],
                            !.timers = @ \cup {r},
                            !.isAnalyzingEnergy = FALSE,
                            !.isProcessing = FALSE,
                            !.runs[r].pc = "settled"]

\* the timer run r started fires
PageTimerFired(r) ==
    /\ r \in page.timers
    /\ page' = [page EXCEPT !.error = <<>>, !.timers = @ \ {r}]

NextPage ==
    /\ \/ \E slot \in {1, 2}, file \in PageFiles : HandleFileUpload(slot, file)
       \/ ProcessTransition
       \/ \E r \in DOMAIN page.runs : PageToneStarted(r)
       \/ \E r \in DOMAIN page.runs : PageLoaded(r)
       \/ \E r \in DOMAIN page.runs : PageDecoded(r)
       \/ \E r \in DOMAIN page.runs : PageCreateRejected(r)
       \/ \E r \in DOMAIN page.runs : PageEncodingThrows(r)
       \/ \E r \in DOMAIN page.runs, shape \in ResultShapes : PageCreateResolved(r, shape)
       \/ \E r \in DOMAIN page.runs : PageEnergyResolved(r)
       \/ \E r \in DOMAIN page.runs : PageEnergyRejected(r)
       \/ \E r \in DOMAIN page.runs : PageTimerFired(r)
    /\ UNCHANGED <<calls, runs, selections, encodings, mixes, analyses>>

SpecPage == InitPage /\ [][NextPage]_vars

(***************************************************************************)
(* Page component: properties                                              *)
(***************************************************************************)

\* C22: whenever a transition URL is displayed it was produced from the two files currently
\* selected as song1 and song2, also when a file is uploaded while a run is in flight.
C22_TransitionUrlMatchesSelectedFiles ==
    page.transitionUrl # <<>> =>
        /\ page.transitionUrl.song1 = page.song1
        /\ page.transitionUrl.song2 = page.song2

EnergyFailureShown ==
    /\ page.error # <<>>
    /\ page.error.kind = "energy"
    /\ page.error.run \in page.timers

(***************************************************************************)
(* Crossfader: properties of the stems                                     *)
(***************************************************************************)

\* the first output sample of channel c (from 1) is 0.8 times track A's sample at its mix
\* point, on the channel createMix reads for c
FirstSampleIsScaledOriginal(mix, c) ==
    LET start1 == startSampleOf(mix.mixPoint1, mix.buffer1, mix.buffer1)
        original == mix.buffer1.channelData[Min(c, mix.buffer1.numberOfChannels)][start1 + 1]
    IN 5 * mix.buffer1.den * mix.result.channelData[c][1] = 4 * mix.result.den * original

\* C24: in the stem variant, for every channel count of track A (mono as well as stereo), the
\* first output sample, where A's vocal and beat gains are 1 and B's are 0, equals 0.8 times
\* track A's original sample at its mix point.
C24_StemFirstSampleIsScaledOriginal ==
    \A k \in DOMAIN mixes :
        mixes[k].variant = "stem" =>
            \A c \in DOMAIN mixes[k].result.channelData :
                FirstSampleIsScaledOriginal(mixes[k], c)

\* it does for every track A of two or more channels
StemFirstSampleIsScaledOriginalUnlessMono ==
    \A k \in DOMAIN mixes :
        (mixes[k].variant = "stem" /\ mixes[k].buffer1.numberOfChannels >= 2) =>
            \A c \in DOMAIN mixes[k].result.channelData :
                FirstSampleIsScaledOriginal(mixes[k], c)

\* a stem mix of a stereo track A whose sample at the mix point is not 0
StereoStemMixReached ==
    \E k \in DOMAIN mixes :
        /\ mixes[k].variant = "stem"
        /\ mixes[k].buffer1.numberOfChannels = 2
        /\ mixes[k].result.channelData[1][1] # 0
        /\ mixes[k].result.channelData[2][1] # 0

C26_FailureRejectsWithWrappedError ==
    \A r \in DOMAIN runs :
        /\ runs[r].pc = "rejected"
              => /\ runs[r].result # <<>>
                 /\ runs[r].result.kind = "Error"
                 /\ Head(runs[r].result.message) = "Failed to create mix: "
                 /\ ProgressScale \notin Range(runs[r].log)
        /\ (runs[r].result # <<>> /\ runs[r].result.kind = "Blob") <=> runs[r].pc = "resolved"
        /\ ProgressScale \in Range(runs[r].log) => runs[r].wav

\* runs have failed at a load (with a value that is no Error), at a decode, and after the mix
\* at the encoding, with 0.9 reported
C26_Witness ==
    \E r \in DOMAIN runs :
        /\ runs[r].pc = "rejected"
        /\ runs[r].log # <<>>
        /\ 10 * runs[r].log[Len(runs[r].log)] = 9 * ProgressScale
        /\ runs[r].result.message = <<"Failed to create mix: ", "Array buffer allocation failed">>
        /\ \E q \in DOMAIN runs :
              /\ runs[q].pc = "rejected"
              /\ runs[q].result.message = <<"Failed to create mix: ", "Unknown error">>

(***************************************************************************)
(* Page component: the displayed stage                                     *)
(***************************************************************************)

\* the position of a stage in the order idle, loading, analyzing, creating, complete
StageRank(stage) ==
    CASE stage = "idle" -> 0
      [] stage = "loading" -> 1
      [] stage = "analyzing" -> 2
      [] stage = "creating" -> 3
      [] stage = "complete" -> 4

RunInFlight == \E r \in DOMAIN page.runs : page.runs[r].pc # "settled"

\* C27: during a processTransition run, in every step that is not a file upload the displayed
\* stage does not move backwards in the order loading, analyzing, creating, complete;
\* 'complete' is shown only together with a reported progress of 1 (100 per cent); and
\* isProcessing is true exactly while a run has not settled, so it is false once the run has
\* settled, with a transition or with an error.
C27_StageNeverMovesBackwards ==
    /\ [](/\ page # <<>> /\ page.stage = "complete" => page.progress = 100
          /\ page # <<>> => (page.isProcessing <=> RunInFlight))
    /\ [][(/\ RunInFlight
           /\ ~ \E slot \in {1, 2}, file \in PageFiles : HandleFileUpload(slot, file))
             => StageRank(page'.stage) >= StageRank(page.stage)]_vars

\* after a first run has settled, a second run has gone through every stage and settled with
\* its transition
C27_Witness ==
    /\ Len(page.runs) = 2
    /\ \A r \in DOMAIN page.runs : page.runs[r].pc = "settled"
    /\ page.stage = "complete"
    /\ page.transitionUrl # <<>>
    /\ page.transitionUrl.run = 2
    /\ ~page.isProcessing

(***************************************************************************)
(* Energy classifier: ranges of the canonical classifier's results         *)
(***************************************************************************)

\* a feature vector with rms and peakAmplitude in [0, 1] and tempo in [60, 180]
InNominalRange(f) ==
    /\ 0 <= f.rms /\ f.rms <= 10
    /\ 0 <= f.peakAmplitude /\ f.peakAmplitude <= SampleDen
    /\ 60 <= f.tempo /\ f.tempo <= 180

\* a ratio that is a finite number in [0, 1]
InUnitInterval(q) == q.den > 0 /\ 0 <= q.num /\ q.num <= q.den

NominalClassifications ==
    {k \in DOMAIN analyses : /\ analyses[k].op = "classify"
                             /\ analyses[k].variant = "canonical"
                             /\ InNominalRange(analyses[k].features)}

\* C28: for every feature vector with rms and peak amplitude in [0, 1] and tempo in
\* [60, 180], every probability returned by predictEnergyLevel is a finite number in [0, 1]
\* and the returned confidence lies in [0, 1].
C28_ProbabilitiesAndConfidenceInUnitInterval ==
    \A k \in NominalClassifications :
        LET result == analyses[k].outcome.analysis
        IN /\ \A i \in DOMAIN result.probabilities : InUnitInterval(result.probabilities[i])
           /\ InUnitInterval(result.confidence)

\* what does hold in that range: the probabilities are finite and at most 1 in size, and the
\* confidence is in [0, 1]
NominalResultsFiniteConfidenceInUnitInterval ==
    \A k \in NominalClassifications :
        LET result == analyses[k].outcome.analysis
        IN /\ \A i \in DOMAIN result.probabilities :
                  /\ result.probabilities[i].den > 0
                  /\ Abs(result.probabilities[i].num) <= result.probabilities[i].den
           /\ InUnitInterval(result.confidence)

\* a vector in that range with rms above 0.6 has been classified
LoudNominalVectorClassified ==
    \E k \in NominalClassifications : analyses[k].features.rms = 10

(***************************************************************************)
(* Energy classifier: the rule-based scores of the three-category variant  *)
(***************************************************************************)

RuleBasedClassifications ==
    {k \in DOMAIN analyses : analyses[k].op = "classify" /\ analyses[k].variant = "guarded"}

\* each of the weights 0.4, 0.3, 0.2, 0.1 goes to exactly one of the three categories
EachWeightAwardedOnce(f) ==
    \A w \in 1..4 :
        \E i \in 1..3 :
            /\ featureAwards(f)[w][i] = 5 - w
            /\ \A j \in 1..3 \ {i} : featureAwards(f)[w][j] = 0

\* two doubles at most n units of 2^-56 / 5 apart (2^-52 is 80 units)
WithinUnits(a, b, n) == a.tenths = b.tenths /\ Abs(a.off - b.off) <= n

\* C29: in the rule-based classifier each of the four feature weights is awarded to exactly
\* one category, so the total score is always exactly 1 (no division by zero), the
\* probabilities equal the raw scores, and the confidence is at least 0.4.
C29_TotalScoreIsExactlyOne ==
    \A k \in RuleBasedClassifications :
        /\ EachWeightAwardedOnce(analyses[k].features)
        /\ analyses[k].doubles.totalScore = DoubleOne
        /\ analyses[k].doubles.probabilities = analyses[k].doubles.scores
        /\ ~DoubleLess(analyses[k].doubles.confidence, DoubleOfTenths(4))

\* C29 (amended): each of the four feature weights is awarded to exactly one category, so
\* the total score is 1 up to the rounding of the double additions (it is 1 - 2^-53, 1 or
\* 1 + 2^-52, never 0, and in exact arithmetic it is 1), every probability is within 2^-52
\* of its raw score, and the confidence is at least 0.4.
C29_TotalScoreIsOneUpToRounding ==
    \A k \in RuleBasedClassifications :
        /\ EachWeightAwardedOnce(analyses[k].features)
        /\ \A i \in 1..3 : analyses[k].outcome.analysis.probabilities[i].den = 10
        /\ analyses[k].doubles.totalScore.tenths = 10
        /\ analyses[k].doubles.totalScore.off \in {-40, 0, 80}
        /\ \A i \in 1..3 : WithinUnits(analyses[k].doubles.probabilities[i],
                                       analyses[k].doubles.scores[i], 80)
        /\ ~DoubleLess(analyses[k].doubles.confidence, DoubleOfTenths(4))

\* a classification whose weights add up to 1.0000000000000002 (0.4 + 0.2 first, then 0.3 and
\* 0.1), with probabilities that differ from the raw scores
C29_Witness ==
    \E k \in RuleBasedClassifications :
        /\ analyses[k].doubles.totalScore = [tenths |-> 10, off |-> 80]
        /\ analyses[k].doubles.probabilities # analyses[k].doubles.scores
        /\ analyses[k].doubles.confidence = DoubleOfTenths(6)

(***************************************************************************)
(* Pipeline: the AudioContext of a run                                     *)
(***************************************************************************)

Settled(run) == run.pc \in {"resolved", "rejected"}

\* C30: every AudioContext opened by createTransition is closed before the call settles, on
\* the success path and on every failure path.
C30_AudioContextClosedWhenSettled ==
    \A r \in DOMAIN runs : Settled(runs[r]) => ~runs[r].ctxOpen

\* what does hold: a resolved run has closed its AudioContext, and a run that failed before
\* it opened one (at Tone.start or at a load) leaves none behind
AudioContextClosedWhenResolved ==
    \A r \in DOMAIN runs :
        /\ runs[r].pc = "resolved" => ~runs[r].ctxOpen
        /\ (runs[r].pc = "rejected" /\ Len(runs[r].log) <= 1) => ~runs[r].ctxOpen

\* a run has resolved after opening its AudioContext, and another has been rejected
ResolvedAndRejectedRuns ==
    /\ \E r \in DOMAIN runs : runs[r].pc = "resolved" /\ runs[r].wav
    /\ \E r \in DOMAIN runs : runs[r].pc = "rejected" /\ runs[r].ctxOpen

====
